---------------------------- MODULE Spec2Model ----------------------------
(***************************************************************************)
(* kxpf: a manager of detached `kubectl port-forward` processes driven by  *)
(* a grouping file.  The module models                                     *)
(*   - PortForwardManager (src/src/manager/port-forward.ts): start, the    *)
(*     process-table scan listAll, list, stop, stopAll, killProcess, and   *)
(*     the processes it launches;                                          *)
(*   - ConfigParser (src/unnamed/part_008): parse and its lookups.         *)
(* Text is modelled as sequences of one-character strings, so that the     *)
(* regular expressions, splits and number conversions of the code are      *)
(* computed rather than assumed.                                           *)
(***************************************************************************)
EXTENDS Integers, Sequences, FiniteSets, TLC

(***************************************************************************)
(* Text helpers (JavaScript string and RegExp primitives used by the code) *)
(***************************************************************************)
Digits == <<"0", "1", "2", "3", "4", "5", "6", "7", "8", "9">>

IsDigit(c) == \E d \in 1..10 : Digits[d] = c

IsSpace(c) == c \in {" ", "\t", "\r", "\n"}

IsNonSpace(c) == ~IsSpace(c)

DigitVal(c) == (CHOOSE d \in 1..10 : Digits[d] = c) - 1

SetMin(S) == CHOOSE x \in S : \A y \in S : x <= y

\* last index of the longest run of characters satisfying P that starts at i
\* (i - 1 when s[i] does not satisfy P or i is past the end)
RunEnd(s, i, P(_)) ==
    LET stops == {j \in i..Len(s) : ~P(s[j])}
    IN  IF stops = {} THEN Len(s) ELSE SetMin(stops) - 1

\* String.prototype.startsWith
StartsWith(s, p) == Len(p) <= Len(s) /\ SubSeq(s, 1, Len(p)) = p

\* w occurs in s at index i
OccursAt(s, w, i) == i + Len(w) - 1 <= Len(s) /\ SubSeq(s, i, i + Len(w) - 1) = w

\* String.prototype.includes / grep of a fixed word
Contains(s, w) == \E i \in 1..(Len(s) + 1) : OccursAt(s, w, i)

\* parseInt(text, 10) of a non-empty run of decimal digits
RECURSIVE ParseDigits(_)
ParseDigits(ds) ==
    IF ds = <<>> THEN 0
    ELSE 10 * ParseDigits(SubSeq(ds, 1, Len(ds) - 1)) + DigitVal(ds[Len(ds)])

\* template-literal rendering `${n}` of a non-negative integer
RECURSIVE NumToText(_)
NumToText(n) ==
    IF n < 10 THEN <<Digits[n + 1]>>
    ELSE NumToText(n \div 10) \o <<Digits[(n % 10) + 1]>>


(***************************************************************************)
(* Words of the command lines the manager produces and recognises          *)
(***************************************************************************)
W_service == <<"s", "e", "r", "v", "i", "c", "e", "/">>

W_portforward == <<"p", "o", "r", "t", "-", "f", "o", "r", "w", "a", "r", "d">>

W_kubectl == <<"k", "u", "b", "e", "c", "t", "l">>

W_minikube == <<"m", "i", "n", "i", "k", "u", "b", "e">>

W_minikubePrefix == <<"m", "i", "n", "i", "k", "u", "b", "e", " ", "k", "u", "b", "e", "c", "t", "l", " ", "-", "-", " ", "p", "o", "r", "t", "-", "f", "o", "r", "w", "a", "r", "d", " ", "s", "e", "r", "v", "i", "c", "e", "/">>

W_kubectlPrefix == <<"k", "u", "b", "e", "c", "t", "l", " ", "p", "o", "r", "t", "-", "f", "o", "r", "w", "a", "r", "d", " ", "s", "e", "r", "v", "i", "c", "e", "/">>

W_context == <<"-", "-", "c", "o", "n", "t", "e", "x", "t", " ">>

W_bash == <<"b", "a", "s", "h", " ", "-", "c", " ">>

W_or == <<" ", "|", "|", " ">>


\* String.prototype.trim
Trim(s) ==
    LET keep == {i \in 1..Len(s) : IsNonSpace(s[i])}
    IN  IF keep = {} THEN <<>>
        ELSE SubSeq(s, SetMin(keep), CHOOSE j \in keep : \A k \in keep : k <= j)

(***************************************************************************)
(* PortForwardManager.start: the command lines it builds                   *)
(***************************************************************************)
NoContext == <<>>

\* the two ports written in the opposite order
PortsTextSwapped(localPort, remotePort) == NumToText(remotePort) \o <<":">> \o NumToText(localPort)

PortsText(localPort, remotePort) == NumToText(localPort) \o <<":">> \o NumToText(remotePort)

\* Unix, line 126: `kubectl port-forward service/${serviceName} ${localPort}:${remotePort} ${context ? `--context ${context}` : ''}`
kubectlCmd(serviceName, localPort, remotePort, context) ==
    W_kubectlPrefix \o serviceName \o <<" ">> \o PortsText(localPort, remotePort) \o <<" ">>
        \o (IF context # NoContext THEN W_context \o context ELSE <<>>)

\* Unix, line 127: the same arguments behind `minikube kubectl --`
minikubeCmd(serviceName, localPort, remotePort, context) ==
    W_minikubePrefix \o serviceName \o <<" ">> \o PortsText(localPort, remotePort) \o <<" ">>
        \o (IF context # NoContext THEN W_context \o context ELSE <<>>)

\* Unix, line 130: `(${kubectlCmd} || ${minikubeCmd}) &`, run by `bash -c`
command(serviceName, localPort, remotePort, context) ==
    <<"(">> \o kubectlCmd(serviceName, localPort, remotePort, context) \o W_or
        \o minikubeCmd(serviceName, localPort, remotePort, context) \o <<")", " ", "&">>

\* Windows, lines 85-86: the command the VBScript runs hidden
winKubectlCmd(serviceName, localPort, remotePort, context) ==
    W_kubectlPrefix \o serviceName \o <<" ">> \o PortsText(localPort, remotePort)
        \o (IF context # NoContext THEN <<" ">> \o W_context \o context ELSE <<>>)

(***************************************************************************)
(* The process table.  A row is one process:                               *)
(*   pid    its process id (>= 1)                                          *)
(*   pidcol the PID column of its line in the process listing, as text;    *)
(*          empty when the leading columns of the line do not match        *)
(*          /^\S+\s+(\d+)/ (Unix) or the entry carries no pid (Windows)    *)
(*   exe    the image name                                                 *)
(*   cmd    the command-line text                                          *)
(*   tunnel the start call that launched it (0: not launched in this run)  *)
(*   role   "shell" (the backgrounded `( a || b )` subshell), "primary"    *)
(*          (kubectl), "fallback" (minikube) or "other"                    *)
(***************************************************************************)
Row(pid, pidcol, exe, cmd, tunnel, role) ==
    [pid |-> pid, pidcol |-> pidcol, exe |-> exe, cmd |-> cmd,
     tunnel |-> tunnel, role |-> role]

\* the undefined pid of a PortForward (`pid?: number`); `if (pf.pid)` is
\* false for undefined and for 0 alike
NoPid == 0

\* /service\/([^\s]+)\s+(\d+):(\d+)/ anchored at index i of s: the indices
\* that delimit the three groups
MatchEnds(s, i) ==
    LET n1 == RunEnd(s, i + Len(W_service), IsNonSpace)
        s1 == RunEnd(s, n1 + 1, IsSpace)
        d1 == RunEnd(s, s1 + 1, IsDigit)
        d2 == RunEnd(s, d1 + 2, IsDigit)
    IN  [n1 |-> n1, s1 |-> s1, d1 |-> d1, d2 |-> d2]

MatchesAt(s, i) ==
    LET e == MatchEnds(s, i)
    IN  /\ OccursAt(s, W_service, i)
        /\ e.n1 >= i + Len(W_service)
        /\ e.s1 >= e.n1 + 1
        /\ e.d1 >= e.s1 + 1
        /\ e.d1 + 1 <= Len(s)
        /\ s[e.d1 + 1] = ":"
        /\ e.d2 >= e.d1 + 2

\* line.match(/service\/([^\s]+)\s+(\d+):(\d+)/): does the line match
PatternMatches(s) == \E i \in 1..Len(s) : MatchesAt(s, i)

\* the groups of the leftmost match, with the ports through parseInt(_, 10)
PatternGroups(s) ==
    LET i == SetMin({j \in 1..Len(s) : MatchesAt(s, j)})
        e == MatchEnds(s, i)
    IN  [serviceName |-> SubSeq(s, i + Len(W_service), e.n1),
         localPort   |-> ParseDigits(SubSeq(s, e.s1 + 1, e.d1)),
         remotePort  |-> ParseDigits(SubSeq(s, e.d1 + 2, e.d2))]

\* the process-table query of listAll:
\*   Unix (line 251)   ps aux | grep "port-forward" | grep -E "(kubectl|minikube)"
\*   Windows (line 208) processes named kubectl.exe whose CommandLine is like *port-forward*
QuerySelects(plat, row) ==
    IF plat = "win32"
    THEN row.exe = "kubectl" /\ Contains(row.cmd, W_portforward)
    ELSE Contains(row.cmd, W_portforward)
            /\ (Contains(row.cmd, W_kubectl) \/ Contains(row.cmd, W_minikube))

\* one entry of the listing to a PortForward (lines 226-236 and 259-275)
ToPortForward(row) ==
    LET g == PatternGroups(row.cmd)
    IN  [serviceName |-> g.serviceName, localPort |-> g.localPort, remotePort |-> g.remotePort,
         pid |-> IF row.pidcol = <<>> THEN NoPid ELSE ParseDigits(row.pidcol)]

\* PortForwardManager.listAll: the undeduplicated scan, in listing order
RECURSIVE listAll(_, _)
listAll(plat, tbl) ==
    IF tbl = <<>> THEN <<>>
    ELSE LET row == Head(tbl)
             rest == listAll(plat, Tail(tbl))
         IN  IF QuerySelects(plat, row) /\ PatternMatches(row.cmd)
             THEN <<ToPortForward(row)>> \o rest
             ELSE rest

\* a key of list that leaves the remote port out
ListKeyNoRemote(pf) == pf.serviceName \o <<":">> \o NumToText(pf.localPort)

\* the key of list, line 306: `${pf.serviceName}:${pf.localPort}:${pf.remotePort}`
ListKey(pf) ==
    pf.serviceName \o <<":">> \o NumToText(pf.localPort) \o <<":">> \o NumToText(pf.remotePort)

\* the loop of list, lines 304-310: a Map in insertion order, first entry kept
RECURSIVE DedupInto(_, _)
DedupInto(uniqueForwards, portForwards) ==
    IF portForwards = <<>> THEN uniqueForwards
    ELSE LET pf == Head(portForwards)
             has == \E k \in 1..Len(uniqueForwards) : ListKey(uniqueForwards[k]) = ListKey(pf)
         IN  DedupInto(IF has THEN uniqueForwards ELSE Append(uniqueForwards, pf),
                       Tail(portForwards))

\* list without its deduplication loop
listNoDedup(portForwards) == portForwards

\* PortForwardManager.list applied to a scan result
list(portForwards) == DedupInto(<<>>, portForwards)

\* the key of the `logged` set of stop and stopAll, lines 337 and 373
LoggedKey(pf) == pf.serviceName \o <<":">> \o NumToText(pf.localPort)

\* a filter that compares without regard to case
Lower(c) == IF c = "A" THEN "a" ELSE IF c = "B" THEN "b" ELSE c

LowerText(s) == [i \in 1..Len(s) |-> Lower(s[i])]

RECURSIVE FilterPrefixIgnoreCase(_, _)
FilterPrefixIgnoreCase(scan, prefix) ==
    IF scan = <<>> THEN <<>>
    ELSE IF StartsWith(LowerText(Head(scan).serviceName), LowerText(prefix))
         THEN <<Head(scan)>> \o FilterPrefixIgnoreCase(Tail(scan), prefix)
         ELSE FilterPrefixIgnoreCase(Tail(scan), prefix)

\* running.filter(pf => pf.serviceName.startsWith(servicePrefix)), line 321
RECURSIVE FilterPrefix(_, _)
FilterPrefix(running, servicePrefix) ==
    IF running = <<>> THEN <<>>
    ELSE IF StartsWith(Head(running).serviceName, servicePrefix)
         THEN <<Head(running)>> \o FilterPrefix(Tail(running), servicePrefix)
         ELSE FilterPrefix(Tail(running), servicePrefix)


\* the process query of listAll ends with an error: the command cannot be
\* run (fault), or, on Unix, the last grep of the pipeline selects no line
\* and exits with status 1
QueryFails(plat, tbl, fault) ==
    \/ fault
    \/ plat = "posix" /\ \A k \in 1..Len(tbl) : ~QuerySelects(plat, tbl[k])

\* a listAll whose catch passes the error of the query on
listAllRethrowing(plat, tbl, fault) ==
    [threw |-> QueryFails(plat, tbl, fault),
     entries |-> IF QueryFails(plat, tbl, fault) THEN <<>> ELSE listAll(plat, tbl)]

\* listAll with its try/catch, lines 201-294: an error of the query ends
\* the scan before any entry is read, and the catch returns no entry
listAllGuarded(plat, tbl, fault) ==
    [threw |-> FALSE,
     entries |-> IF QueryFails(plat, tbl, fault) THEN <<>> ELSE listAll(plat, tbl)]

(***************************************************************************)
(* ConfigParser, src/unnamed/part_008, and the validators it calls,        *)
(* src/unnamed/part_013                                                    *)
(***************************************************************************)
LowerChars == {"a", "b", "c", "d", "e", "f", "g", "h", "i", "j", "k", "l", "m", "n", "o", "p", "q", "r", "s", "t", "u", "v", "w", "x", "y", "z"}

UpperChars == {"A", "B", "C", "D", "E", "F", "G", "H", "I", "J", "K", "L", "M", "N", "O", "P", "Q", "R", "S", "T", "U", "V", "W", "X", "Y", "Z"}

DigitChars == {"0", "1", "2", "3", "4", "5", "6", "7", "8", "9"}

IsLowerAlnum(c) == c \in LowerChars \cup DigitChars

\* [a-zA-Z0-9-_]
IsGroupNameChar(c) == c \in LowerChars \cup UpperChars \cup DigitChars \cup {"-", "_"}

\* [-a-z0-9]
IsLabelChar(c) == c \in LowerChars \cup DigitChars \cup {"-"}

W_contextKey == <<"c", "o", "n", "t", "e", "x", "t">>

\* content.split('\n'): the pieces between the separators
RECURSIVE SplitOn(_, _)
SplitOn(s, sep) ==
    LET at == {i \in 1..Len(s) : s[i] = sep}
    IN  IF at = {} THEN <<s>>
        ELSE <<SubSeq(s, 1, SetMin(at) - 1)>> \o SplitOn(SubSeq(s, SetMin(at) + 1, Len(s)), sep)

\* /^([a-zA-Z0-9-_]+)\s*:\s*\{/ on a trimmed line (line 54): the indices
\* that end the name, the blanks before `:` and the blanks after it
GroupMatchEnds(line) ==
    LET n1 == RunEnd(line, 1, IsGroupNameChar)
        s1 == RunEnd(line, n1 + 1, IsSpace)
        s2 == RunEnd(line, s1 + 2, IsSpace)
    IN  [n1 |-> n1, s1 |-> s1, s2 |-> s2]

GroupMatches(line) ==
    LET e == GroupMatchEnds(line)
    IN  /\ e.n1 >= 1
        /\ e.s1 + 1 <= Len(line) /\ line[e.s1 + 1] = ":"
        /\ e.s2 + 1 <= Len(line) /\ line[e.s2 + 1] = "{"

GroupMatchName(line) == SubSeq(line, 1, GroupMatchEnds(line).n1)

\* validateGroupName, part_013 lines 102-112
ValidGroupName(name) ==
    /\ Trim(name) # <<>>
    /\ \A i \in 1..Len(name) : IsGroupNameChar(name[i])

\* /^context\s*:\s*(.+)$/ on a trimmed line (line 99)
ContextMatchEnds(line) ==
    LET s1 == RunEnd(line, Len(W_contextKey) + 1, IsSpace)
        s2 == RunEnd(line, s1 + 2, IsSpace)
    IN  [s1 |-> s1, s2 |-> s2]

ContextMatches(line) ==
    LET e == ContextMatchEnds(line)
    IN  /\ StartsWith(line, W_contextKey)
        /\ e.s1 + 1 <= Len(line) /\ line[e.s1 + 1] = ":"
        /\ e.s1 + 2 <= Len(line)

\* contextMatch[1]?.trim()
ContextMatchValue(line) == Trim(SubSeq(line, ContextMatchEnds(line).s1 + 2, Len(line)))

\* validateContextName, part_013 lines 117-126
ValidContextName(name) ==
    /\ Trim(name) # <<>>
    /\ \A i \in 1..Len(name) : name[i] \notin {" ", "\t", "\n"}

\* one label of /^[a-z0-9]([-a-z0-9]*[a-z0-9])?$/
ValidLabel(label) ==
    /\ label # <<>>
    /\ IsLowerAlnum(label[1])
    /\ IsLowerAlnum(label[Len(label)])
    /\ \A i \in 1..Len(label) : IsLabelChar(label[i])

\* validateServiceName, part_013 lines 87-97:
\* /^[a-z0-9]([-a-z0-9]*[a-z0-9])?(\.[a-z0-9]([-a-z0-9]*[a-z0-9])?)*$/
ValidServiceName(name) ==
    /\ Trim(name) # <<>>
    /\ LET labels == SplitOn(name, ".")
       IN  \A k \in 1..Len(labels) : ValidLabel(labels[k])

\* validatePort, part_013 lines 78-82
ValidPort(port) == port \in 1..65535

\* parseInt(text, 10): blanks, an optional sign, then the longest run of
\* digits; NaN when there is no digit
NaN == [nan |-> TRUE, value |-> 0]

parseInt(text) ==
    LET t == Trim(text)
        signed == t # <<>> /\ t[1] \in {"+", "-"}
        from == IF signed THEN 2 ELSE 1
        to == RunEnd(t, from, IsDigit)
    IN  IF to < from THEN NaN
        ELSE [nan |-> FALSE,
              value |-> IF signed /\ t[1] = "-" THEN 0 - ParseDigits(SubSeq(t, from, to))
                        ELSE ParseDigits(SubSeq(t, from, to))]

\* line.replace(/;$/, '').trim(), line 118
StripSemicolon(line) ==
    Trim(IF line # <<>> /\ line[Len(line)] = ";" THEN SubSeq(line, 1, Len(line) - 1) ELSE line)

\* serviceLine.split(',').map(p => p.trim()), line 120
ServiceParts(line) ==
    LET raw == SplitOn(StripSemicolon(line), ",")
    IN  [k \in 1..Len(raw) |-> Trim(raw[k])]

\* a ConfigParseError: its message kind, its file (<<>>: undefined) and
\* its line (NoLine: undefined)
NoLine == 0

NoFile == <<>>

ConfigParseError(kind, file, line) == [kind |-> kind, file |-> file, line |-> line]

\* the Map `groups`, in insertion order: set replaces the value of a key
\* that is present and appends otherwise
MapHas(groups, name) == \E k \in 1..Len(groups) : groups[k].name = name

\* a map that keeps the value a key was first given
MapSetKeepFirst(groups, group) ==
    IF MapHas(groups, group.name) THEN groups ELSE Append(groups, group)

MapSet(groups, group) ==
    IF MapHas(groups, group.name)
    THEN [k \in 1..Len(groups) |-> IF groups[k].name = group.name THEN group ELSE groups[k]]
    ELSE Append(groups, group)

\* a Group; context <<>> stands for an absent context
NewGroup(name) == [name |-> name, context |-> <<>>, services |-> <<>>]

\* the parser state between two lines: inGroup, currentGroup (<<>>: null,
\* <<g>>: the group g), the Map groups, and the error thrown (<<>>: none)
ParserState(inGroup, currentGroup, groups, error) ==
    [inGroup |-> inGroup, currentGroup |-> currentGroup, groups |-> groups, error |-> error]

Throw(ps, kind, filename, lineNumber) ==
    [ps EXCEPT !.error = <<ConfigParseError(kind, filename, lineNumber)>>]

\* a duplicate test that finds nothing
DuplicateNameNever(services, name) == FALSE

\* line 160: currentGroup.services.some(s => s.name === name)
DuplicateName(services, name) == \E k \in 1..Len(services) : services[k].name = name

\* a line that is no service line is passed over
InvalidServiceFormatSkipped(ps, filename, lineNumber) == ps

\* lines 171-177: the line does not split into 3 parts
InvalidServiceFormat(ps, filename, lineNumber) ==
    Throw(ps, "Invalid service format", filename, lineNumber)

\* a service put in front of the services of the group
UnshiftService(services, service) == <<service>> \o services

\* line 170: currentGroup.services.push(service)
PushService(services, service) == Append(services, service)

\* lines 116-177: a service line inside the group g
ServiceLine(ps, g, line, filename, lineNumber) ==
    LET parts == ServiceParts(line)
    IN  IF Len(parts) # 3
        THEN InvalidServiceFormat(ps, filename, lineNumber)
        ELSE IF parts[1] = <<>> \/ parts[2] = <<>> \/ parts[3] = <<>>
        THEN Throw(ps, "Service definition must have exactly 3 parts", filename, lineNumber)
        ELSE IF ~ValidServiceName(parts[1])
        THEN Throw(ps, "Invalid service name", filename, lineNumber)
        ELSE LET localPort == parseInt(parts[2])
                 remotePort == parseInt(parts[3])
             IN  IF localPort.nan \/ remotePort.nan
                 THEN Throw(ps, "Invalid port numbers", filename, lineNumber)
                 ELSE IF ~ValidPort(localPort.value) \/ ~ValidPort(remotePort.value)
                 THEN Throw(ps, "Invalid port", filename, lineNumber)
                 ELSE IF DuplicateName(g.services, parts[1])
                 THEN Throw(ps, "Duplicate service name", filename, lineNumber)
                 ELSE [ps EXCEPT !.currentGroup =
                          <<[g EXCEPT !.services =
                                PushService(@, [name |-> parts[1],
                                                localPort |-> localPort.value,
                                                remotePort |-> remotePort.value])]>>]

\* the end-of-input test of line 189: `!inGroup && currentGroup`
EndsInsideGroup(ps) == ~ps.inGroup /\ ps.currentGroup # <<>>

\* a group-open line is taken whether or not a group is open
NestedGroupNever(inGroup) == FALSE

\* line 56: `if (inGroup)` on a group-open line
NestedGroup(inGroup) == inGroup

\* a group is closed whatever it holds
EmptyGroupNever(group) == FALSE

\* line 86: currentGroup.services.length === 0
EmptyGroup(group) == group.services = <<>>

\* a line outside every group is passed over
OutsideGroupSkipped(ps, filename, lineNumber) == ps

\* lines 178-180: a line that opens no group, met while no group is open
OutsideGroup(ps, filename, lineNumber) ==
    Throw(ps, "Unexpected content outside group", filename, lineNumber)

\* a text without groups is returned as an empty Config
NoGroupsNever(groups) == FALSE

\* line 193: groups.size === 0
NoGroups(groups) == Len(groups) = 0

\* the body of the loop of parse, lines 35-186, for one line of the text
ParseStep(ps, rawLine, filename, lineNumber) ==
    LET line == Trim(rawLine)
    IN  IF line = <<>> THEN ps
        ELSE IF line[1] = "#" THEN ps
        ELSE IF GroupMatches(line)
        THEN IF NestedGroup(ps.inGroup)
             THEN Throw(ps, "Nested groups are not supported", filename, lineNumber)
             ELSE IF ~ValidGroupName(GroupMatchName(line))
             THEN Throw(ps, "Invalid group name", filename, lineNumber)
             ELSE [ps EXCEPT !.currentGroup = <<NewGroup(GroupMatchName(line))>>,
                             !.inGroup = TRUE]
        ELSE IF line = <<"}">>
        THEN IF ~ps.inGroup
             THEN Throw(ps, "Unexpected group end", filename, lineNumber)
             ELSE IF ps.currentGroup # <<>>
             THEN IF EmptyGroup(ps.currentGroup[1])
                  THEN Throw(ps, "Group is empty", filename, lineNumber)
                  ELSE [ps EXCEPT !.groups = MapSet(@, ps.currentGroup[1]),
                                  !.currentGroup = <<>>,
                                  !.inGroup = FALSE]
             ELSE [ps EXCEPT !.inGroup = FALSE]
        ELSE IF ps.inGroup /\ ps.currentGroup # <<>>
        THEN IF ContextMatches(line)
             THEN IF ContextMatchValue(line) = <<>>
                  THEN Throw(ps, "Invalid context format", filename, lineNumber)
                  ELSE IF ~ValidContextName(ContextMatchValue(line))
                  THEN Throw(ps, "Invalid context", filename, lineNumber)
                  ELSE [ps EXCEPT !.currentGroup =
                           <<[ps.currentGroup[1] EXCEPT !.context = ContextMatchValue(line)]>>]
             ELSE ServiceLine(ps, ps.currentGroup[1], line, filename, lineNumber)
        ELSE OutsideGroup(ps, filename, lineNumber)

\* the checks after the loop, lines 189-195
ParseFinish(ps, filename) ==
    IF EndsInsideGroup(ps)
    THEN Throw(ps, "Config file ends without closing group", filename, NoLine)
    ELSE IF NoGroups(ps.groups)
    THEN Throw(ps, "No groups found in configuration", filename, NoLine)
    ELSE ps

\* ConfigParser.parse, lines 28-198: the loop from line i on, then the
\* checks after it; a throw ends it
RECURSIVE ParseFrom(_, _, _, _)
ParseFrom(ps, ls, filename, i) ==
    IF ps.error # <<>> THEN ps
    ELSE IF i > Len(ls) THEN ParseFinish(ps, filename)
    ELSE ParseFrom(ParseStep(ps, ls[i], filename, i), ls, filename, i + 1)

parse(content, filename) ==
    ParseFrom(ParserState(FALSE, <<>>, <<>>, <<>>), SplitOn(content, "\n"), filename, 1)

\* a lookup that answers with the first group when the name is absent
findGroupOrFirst(groups, groupName) ==
    IF MapHas(groups, groupName)
    THEN <<groups[CHOOSE k \in 1..Len(groups) : groups[k].name = groupName]>>
    ELSE IF groups # <<>> THEN <<groups[1]>> ELSE <<>>

\* ConfigParser.findGroup, lines 207-213: <<group>>, or <<>> for a throw of
\* GroupNotFoundError
findGroup(groups, groupName) ==
    IF MapHas(groups, groupName)
    THEN <<groups[CHOOSE k \in 1..Len(groups) : groups[k].name = groupName]>>
    ELSE <<>>

RECURSIVE FilterServices(_, _)
FilterServices(services, servicePrefix) ==
    IF services = <<>> THEN <<>>
    ELSE IF StartsWith(Head(services).name, servicePrefix)
         THEN <<Head(services)>> \o FilterServices(Tail(services), servicePrefix)
         ELSE FilterServices(Tail(services), servicePrefix)

\* a lookup by a word the service name holds anywhere
findServicesContaining(group, servicePrefix) ==
    SelectSeq(group.services, LAMBDA service : Contains(service.name, servicePrefix))

\* a lookup by the whole service name
findServicesExact(group, servicePrefix) ==
    IF servicePrefix = <<>> THEN group.services
    ELSE SelectSeq(group.services, LAMBDA service : service.name = servicePrefix)

\* a lookup that falls back on every service of the group when the prefix
\* selects none
findServicesOrAll(group, servicePrefix) ==
    IF FilterServices(group.services, servicePrefix) = <<>> THEN group.services
    ELSE FilterServices(group.services, servicePrefix)

\* ConfigParser.findServicesWithPrefix, lines 222-237; servicePrefix <<>>
\* stands for undefined and for '' alike (`!servicePrefix`); an empty
\* result stands for a throw of ServiceNotFoundError
findServicesWithPrefix(group, servicePrefix) ==
    IF servicePrefix = <<>> THEN group.services
    ELSE FilterServices(group.services, servicePrefix)

\* an error handler that leaves with status 1 whatever the error
ExitCodeAlwaysOne(kind) == 1

\* handleError, part_013 lines 40-63: a KxpfError leaves with its exitCode
\* (127 for KubectlNotFoundError, 1 for the other classes), anything else
\* with 1
handleError(kind) == IF kind = "KubectlNotFoundError" THEN 127 ELSE 1

(***************************************************************************)
(* State                                                                   *)
(***************************************************************************)
VARIABLES
    platform,       \* process.platform: "posix" or "win32"
    table,          \* the OS process table, in listing order
    listRunning,    \* list: the scan it was computed from
    listResult,     \* list: its return value
    listDone,       \* list has returned at least once
    listThrew,      \* list: the call ended with an exception
    stopPc,         \* stop/stopAll: "idle", "kill" (inside the loop), "done" or "failed"
    stopMode,       \* "stop" or "stopAll"
    servicePrefix,  \* stop: its argument
    running,        \* stop/stopAll: the result of listAll
    matching,       \* stop/stopAll: the entries the loop walks
    stopIdx,        \* stop/stopAll: index of the next entry of the loop
    logged,         \* stop/stopAll: the Set `logged`
    stopRet,        \* stop/stopAll: the returned number
    scanQuiet,      \* history: no start call was in progress when stop/stopAll scanned
    kills,          \* every killProcess call so far: <<pid, succeeded>>
    console,        \* console.log lines of the manager, by kind
    kubectlReachable,   \* `kubectl` can be executed on this host
    minikubeReachable,  \* `minikube` can be executed on this host
    queryFault,     \* the process query of listAll fails on this host
    nextPid,        \* pid the OS gives to the next process
    chain,          \* per start call: how far its `kubectl || minikube` job is
    start,          \* per start call: the state of PortForwardManager.start
    content,        \* parse: its argument content
    filename,       \* parse: its argument filename (<<>>: not given)
    lines,          \* parse: content.split('\n')
    lineIdx,        \* parse: the loop variable i
    parser,         \* parse: inGroup, currentGroup, groups and the error thrown
    parsePc,        \* parse: "start", "loop" or "done"
    up,             \* the state of upCommand
    exitCode,       \* the status the command's process ended with (NoExit: running)
    lookup          \* findGroup and findServicesWithPrefix: arguments and results

stopVars == <<listRunning, listResult, listDone, listThrew, stopPc, stopMode,
              servicePrefix, running, matching, stopIdx, logged, stopRet, kills, scanQuiet>>

hostVars == <<platform, kubectlReachable, minikubeReachable, queryFault>>

parseVars == <<content, filename, lines, lineIdx, parser, parsePc>>

cmdVars == <<up, exitCode, lookup>>

managerVars == <<platform, table, listRunning, listResult, listDone, listThrew, stopPc,
                 stopMode, servicePrefix, running, matching, stopIdx, logged, stopRet, kills,
                 scanQuiet,
                 console, kubectlReachable, minikubeReachable, queryFault, nextPid, chain, start>>

(***************************************************************************)
(* Bounds and input domains                                                *)
(***************************************************************************)
\* largest number of processes in an initial process-table snapshot
MaxProcs == 2

\* pid of the first process of a snapshot
BasePid == 1233

Name_a == <<"a">>

Name_b == <<"b">>

Ctx_c == <<"c">>

\* prefixes handed to stop
Prefixes == {<<>>, <<"a">>, <<"a", "b">>, <<"A">>}

\* a listing line that passes both greps and is no port-forward: the shell
\* that runs the listing pipeline itself
W_listingShell == <<"g", "r", "e", "p", " ">> \o W_portforward \o <<" ">> \o W_kubectl

\* processes a snapshot is drawn from: <<image, command line>>
SnapshotProcs ==
    { <<"kubectl",  Trim(kubectlCmd(Name_a, 8080, 80, NoContext))>>,
      <<"kubectl",  Trim(kubectlCmd(Name_a, 8080, 81, NoContext))>>,
      <<"kubectl",  Trim(kubectlCmd(Name_b, 8080, 80, Ctx_c))>>,
      <<"minikube", Trim(minikubeCmd(Name_a, 8080, 80, NoContext))>>,
      <<"sh",       W_listingShell>> }

\* the snapshots: up to MaxProcs processes with increasing pids; a listing
\* line may lack a readable PID column
SnapshotOfLen(n) ==
    { [i \in 1..n |->
          Row(BasePid + i, IF hasPid[i] THEN NumToText(BasePid + i) ELSE <<>>,
              choice[i][1], choice[i][2], 0, "other")] :
        choice \in [1..n -> SnapshotProcs], hasPid \in [1..n -> BOOLEAN] }

Snapshots == UNION { SnapshotOfLen(n) : n \in 0..MaxProcs }

(***************************************************************************)
(* killProcess, lines 391-411: `kill <pid>` / `taskkill /F /PID <pid>`.    *)
(* The call fails when no such process exists; the error is swallowed.     *)
(***************************************************************************)
Alive(tbl, pid) == \E k \in 1..Len(tbl) : tbl[k].pid = pid

RECURSIVE RemoveProc(_, _)
RemoveProc(tbl, pid) ==
    IF tbl = <<>> THEN <<>>
    ELSE IF Head(tbl).pid = pid THEN RemoveProc(Tail(tbl), pid)
         ELSE <<Head(tbl)>> \o RemoveProc(Tail(tbl), pid)

\* exit status of a process ended by SIGTERM (128 + 15)
KilledStatus == 128 + 15

\* The job `( kubectl ... || minikube ... ) &` of start call c is in one of
\*   "none"            not launched
\*   "launchPrimary"   the subshell is about to run the left side of `||`
\*   "primary"         the subshell waits for kubectl
\*   "launchFallback"  kubectl ended with a status other than 0: the
\*                     subshell is about to run the right side of `||`
\*   "fallback"        the subshell waits for minikube
\*   "ended"           the job ended with status 0
\*   "failed"          the job ended with a status other than 0
\*   "killed"          the subshell was terminated
\* On Windows there is no subshell and no right side: "primary", then
\* "ended" or "failed".
RowOf(tbl, pid) == CHOOSE r \in {tbl[k] : k \in 1..Len(tbl)} : r.pid = pid

\* the job state after the process row ended with the given status
ChainAfter(plat, ch, row, status) ==
    IF row.tunnel = 0 THEN ch
    ELSE LET c == row.tunnel
         IN  IF row.role = "shell" THEN [ch EXCEPT ![c] = "killed"]
             ELSE IF row.role = "primary" /\ ch[c] = "primary"
                  THEN [ch EXCEPT ![c] = IF status = 0 THEN "ended"
                                         ELSE IF plat = "win32" THEN "failed"
                                         ELSE "launchFallback"]
             ELSE IF row.role = "fallback" /\ ch[c] = "fallback"
                  THEN [ch EXCEPT ![c] = IF status = 0 THEN "ended" ELSE "failed"]
             ELSE ch

RECURSIVE RemoveShell(_, _)
RemoveShell(tbl, c) ==
    IF tbl = <<>> THEN <<>>
    ELSE IF Head(tbl).role = "shell" /\ Head(tbl).tunnel = c THEN RemoveShell(Tail(tbl), c)
         ELSE <<Head(tbl)>> \o RemoveShell(Tail(tbl), c)

\* the process table after the process pid ended with the given status: it
\* leaves the table, and so does its subshell when that ends the job
TableAfter(plat, tbl, ch, pid, status) ==
    IF ~Alive(tbl, pid) THEN tbl
    ELSE LET row == RowOf(tbl, pid)
             after == ChainAfter(plat, ch, row, status)
             gone == RemoveProc(tbl, pid)
         IN  IF row.tunnel # 0 /\ after[row.tunnel] \in {"ended", "failed"}
             THEN RemoveShell(gone, row.tunnel)
             ELSE gone

ChainAfterPid(plat, tbl, ch, pid, status) ==
    IF ~Alive(tbl, pid) THEN ch ELSE ChainAfter(plat, ch, RowOf(tbl, pid), status)

\* a termination by command line (`pkill -f`) instead of by pid: every
\* process of the tunnel the pid belongs to ends
RECURSIVE RemoveTunnel(_, _)
RemoveTunnel(tbl, c) ==
    IF tbl = <<>> THEN <<>>
    ELSE IF Head(tbl).tunnel = c THEN RemoveTunnel(Tail(tbl), c)
         ELSE <<Head(tbl)>> \o RemoveTunnel(Tail(tbl), c)

killProcessesLike(plat, tbl, ch, pid) ==
    IF ~Alive(tbl, pid) THEN tbl
    ELSE IF RowOf(tbl, pid).tunnel = 0 THEN RemoveProc(tbl, pid)
    ELSE RemoveTunnel(tbl, RowOf(tbl, pid).tunnel)

\* killProcess, lines 391-411: the process table after `kill <pid>` /
\* `taskkill /F /PID <pid>`; no such process: the error is swallowed
killProcess(plat, tbl, ch, pid) == TableAfter(plat, tbl, ch, pid, KilledStatus)

\* stop walking the deduplicated list instead of the scan
StopCandidatesDedup(scan, prefix) == FilterPrefix(list(scan), prefix)

\* stop walking every scanned entry, whatever its service name
StopCandidatesAll(scan, prefix) == scan

\* lines 321 and 333: the entries stop walks
StopCandidates(scan, prefix) == FilterPrefix(scan, prefix)

\* stopAll walking the deduplicated list instead of the scan
StopAllCandidatesDedup(scan) == list(scan)

\* stopAll walking the scan from its last entry to its first
StopAllCandidatesReversed(scan) == [k \in 1..Len(scan) |-> scan[Len(scan) + 1 - k]]

\* line 369: the entries stopAll walks, `for (const pf of running)`
StopAllCandidates(scan) == scan

\* lines 335 and 371: `if (pf.pid)`
HasPid(pf) == pf.pid # NoPid

(***************************************************************************)
(* PortForwardManager.start, lines 66-190                                  *)
(***************************************************************************)
\* largest number of start calls in one behaviour
MaxStarts == 1

Calls == 1..MaxStarts

\* a validation that leaves the ports unchecked
ValidStartParamsNameOnly(serviceName, localPort, remotePort) == serviceName # <<>>

\* validateStartParams, lines 22-34
ValidStartParams(serviceName, localPort, remotePort) ==
    /\ serviceName # <<>>
    /\ localPort \in 1..65535
    /\ remotePort \in 1..65535

\* arguments handed to start
StartArgs ==
    { [serviceName |-> Name_a, localPort |-> 8080, remotePort |-> 80, context |-> NoContext],
      [serviceName |-> Name_a, localPort |-> 8080, remotePort |-> 80, context |-> Ctx_c],
      [serviceName |-> Name_a, localPort |-> 0, remotePort |-> 80, context |-> NoContext] }

\* exit statuses of a forwarding client that ends on its own
ExitStatuses == {0, 1}

NoEvent == 0 - 1

IdleStart ==
    [pc |-> "idle", serviceName |-> <<>>, localPort |-> 0, remotePort |-> 0,
     context |-> NoContext,
     checked |-> "none",         \* history: result of checkKubectlAvailability ("ok", "failed")
     launcher |-> "none",        \* the spawned child (bash or wscript.exe)
     pendingExit |-> NoEvent,    \* exit code of an 'exit' event not yet handled
     pendingError |-> "none",    \* message kind of an 'error' event not yet handled
     exitListener |-> FALSE,     \* the 'exit' listener is attached
     stderrOpen |-> FALSE,       \* child.stderr exists and is not destroyed
     pipe |-> <<>>,              \* text written to the stderr pipe, not yet read
     errorOutput |-> <<>>,       \* the variable errorOutput
     outcome |-> "none",         \* how the returned promise settled
     reason |-> <<>>,            \* the message of the PortForwardError
     startedMsg |-> FALSE,       \* `Started port-forward for ...` was logged
     primaryRan |-> FALSE,       \* history: kubectl was executed
     fallbackLaunched |-> FALSE, \* history: minikube was executed
     established |-> FALSE,      \* history: kubectl was running when the timer fired
     failedEarly |-> FALSE]      \* history: the job failed before the timer fired

\* a promise settles once: later resolve and reject calls have no effect
Settle(st, outcome, reason) ==
    IF st.outcome = "none" THEN [st EXCEPT !.outcome = outcome, !.reason = reason] ELSE st

\* history: a job that fails while its start call still waits for the timer
NoteChain(st, before, after) ==
    [c \in DOMAIN st |->
        IF after[c] = "failed" /\ before[c] # "failed" /\ st[c].pc = "waiting"
        THEN [st[c] EXCEPT !.failedEarly = TRUE]
        ELSE st[c]]

HasRow(tbl, c, role) == \E k \in 1..Len(tbl) : tbl[k].tunnel = c /\ tbl[k].role = role

NewRow(pid, exe, cmd, c, role) == Row(pid, NumToText(pid), exe, cmd, c, role)

\* start is called: lines 66-72, validateStartParams
StartCall(c, args) ==
    /\ start[c].pc = "idle"
    /\ \A d \in DOMAIN start : d < c => start[d].pc # "idle"
    /\ LET st == [start[c] EXCEPT !.serviceName = args.serviceName,
                                  !.localPort = args.localPort,
                                  !.remotePort = args.remotePort,
                                  !.context = args.context]
       IN  start' = [start EXCEPT ![c] =
              IF ValidStartParams(args.serviceName, args.localPort, args.remotePort)
              THEN [st EXCEPT !.pc = "check"]
              ELSE Settle([st EXCEPT !.pc = "done"], "PortForwardError", <<"invalid">>)]
    /\ UNCHANGED <<hostVars, table, stopVars, console, nextPid, chain, parseVars, cmdVars>>

\* start going on to spawn without the availability check
StartCheckSkipped(c) ==
    /\ start[c].pc = "check"
    /\ start' = [start EXCEPT ![c] = [@ EXCEPT !.pc = "spawn"]]
    /\ UNCHANGED <<hostVars, table, stopVars, console, nextPid, chain, parseVars, cmdVars>>

\* checkKubectlAvailability, lines 39-56 and 75: `kubectl version --client`
StartCheck(c) ==
    /\ start[c].pc = "check"
    /\ start' = [start EXCEPT ![c] =
          IF kubectlReachable
          THEN [@ EXCEPT !.pc = "spawn", !.checked = "ok"]
          ELSE Settle([@ EXCEPT !.pc = "done", !.checked = "failed"], "KubectlNotFoundError", <<>>)]
    /\ UNCHANGED <<hostVars, table, stopVars, console, nextPid, chain, parseVars, cmdVars>>

\* a start that scans the processes and refuses a tunnel that runs already
AlreadyForwardedByScan(plat, tbl, serviceName, localPort) ==
    \E k \in 1..Len(listAll(plat, tbl)) :
        /\ listAll(plat, tbl)[k].serviceName = serviceName
        /\ listAll(plat, tbl)[k].localPort = localPort

\* lines 66-135: between validateStartParams and spawn, start makes no call
\* of listAll and reads no other record of the processes that run, so no
\* state of the process table keeps it from spawning
AlreadyForwarded(plat, tbl, serviceName, localPort) == FALSE

\* the promise executor, lines 78-181: spawn, the listeners, the timer.
\* On Windows writing the VBScript file may fail (lines 98-105).
StartSpawn(c) ==
    /\ start[c].pc = "spawn"
    /\ \/ start' = [start EXCEPT ![c] =
             IF AlreadyForwarded(platform, table, start[c].serviceName, start[c].localPort)
             THEN Settle([@ EXCEPT !.pc = "done"], "PortForwardError", <<"running">>)
             ELSE [@ EXCEPT !.pc = "waiting", !.launcher = "spawned", !.exitListener = TRUE,
                            !.stderrOpen = (platform = "posix")]]
       \/ /\ platform = "win32"
          /\ start' = [start EXCEPT ![c] =
                Settle([@ EXCEPT !.pc = "done"], "PortForwardError", <<"vbs">>)]
    /\ UNCHANGED <<hostVars, table, stopVars, console, nextPid, chain, parseVars, cmdVars>>

\* the spawned child runs.  Unix: `bash -c "( kubectl ... || minikube ... ) &"`
\* forks the job as a background subshell and ends with status 0 at once.
\* Windows: wscript.exe runs `WshShell.Run "<kubectl ...>", 0, False`, which
\* starts kubectl without waiting for it, and ends with status 0.
LauncherRuns(c) ==
    /\ start[c].launcher = "spawned"
    /\ table' = Append(table,
          IF platform = "posix"
          THEN NewRow(nextPid, "bash",
                      W_bash \o command(start[c].serviceName, start[c].localPort,
                                        start[c].remotePort, start[c].context),
                      c, "shell")
          ELSE NewRow(nextPid, "kubectl",
                      winKubectlCmd(start[c].serviceName, start[c].localPort,
                                    start[c].remotePort, start[c].context),
                      c, "primary"))
    /\ nextPid' = nextPid + 1
    /\ chain' = [chain EXCEPT ![c] = IF platform = "posix" THEN "launchPrimary" ELSE "primary"]
    /\ start' = [start EXCEPT ![c] =
          [@ EXCEPT !.launcher = "gone", !.pendingExit = 0,
                    !.primaryRan = (platform = "win32")]]
    /\ UNCHANGED <<hostVars, stopVars, console, parseVars, cmdVars>>

\* the spawned child cannot do its work (bash cannot fork, the script
\* host rejects the script): it ends with status 1
LauncherFails(c) ==
    /\ start[c].launcher = "spawned"
    /\ start' = [start EXCEPT ![c] =
          [@ EXCEPT !.launcher = "gone", !.pendingExit = 1,
                    !.pipe = IF platform = "posix" THEN Append(@, "launcher") ELSE @]]
    /\ UNCHANGED <<hostVars, table, stopVars, console, nextPid, chain, parseVars, cmdVars>>

\* spawn itself fails (bash or wscript.exe is missing, or another error)
SpawnFails(c) ==
    /\ start[c].launcher = "spawned"
    /\ \E kind \in {"ENOENT", "other"} :
          start' = [start EXCEPT ![c] = [@ EXCEPT !.launcher = "gone", !.pendingError = kind]]
    /\ UNCHANGED <<hostVars, table, stopVars, console, nextPid, chain, parseVars, cmdVars>>

\* child.stderr.on('data'), lines 138-144
OnStderrData(c) ==
    /\ start[c].stderrOpen
    /\ start[c].pipe # <<>>
    /\ start' = [start EXCEPT ![c] =
          [@ EXCEPT !.errorOutput = @ \o start[c].pipe, !.pipe = <<>>]]
    /\ UNCHANGED <<hostVars, table, stopVars, console, nextPid, chain, parseVars, cmdVars>>

\* child.on('error'), lines 147-154
OnError(c) ==
    /\ start[c].pendingError # "none"
    /\ start' = [start EXCEPT ![c] =
          IF start[c].pendingError = "ENOENT"
          THEN Settle([@ EXCEPT !.pendingError = "none"], "KubectlNotFoundError", <<>>)
          ELSE Settle([@ EXCEPT !.pendingError = "none"], "PortForwardError", <<"spawn">>)]
    /\ UNCHANGED <<hostVars, table, stopVars, console, nextPid, chain, parseVars, cmdVars>>

\* child.on('exit'), lines 157-164: the exit of the spawned child
OnExit(c) ==
    /\ start[c].exitListener
    /\ start[c].pendingExit # NoEvent
    /\ start' = [start EXCEPT ![c] =
          IF start[c].pendingExit # 0
          THEN Settle([@ EXCEPT !.pendingExit = NoEvent], "PortForwardError",
                      IF start[c].errorOutput # <<>> THEN start[c].errorOutput
                      ELSE <<"exitedWithCode">>)
          ELSE [@ EXCEPT !.pendingExit = NoEvent]]
    /\ UNCHANGED <<hostVars, table, stopVars, console, nextPid, chain, parseVars, cmdVars>>

\* a start that settles when the spawned child and its tunnel have ended
SettleAfterTunnel(c) ==
    /\ start[c].pc = "waiting"
    /\ start[c].launcher = "gone"
    /\ ~\E k \in 1..Len(table) : table[k].tunnel = c
    /\ start' = [start EXCEPT ![c] =
          Settle([@ EXCEPT !.pc = "done", !.exitListener = FALSE, !.stderrOpen = FALSE,
                           !.startedMsg = TRUE],
                 "success", <<>>)]
    /\ UNCHANGED <<hostVars, table, stopVars, console, nextPid, chain, parseVars, cmdVars>>

\* the 500 ms timer, lines 167-181
GraceTimer(c) ==
    /\ start[c].pc = "waiting"
    /\ start' = [start EXCEPT ![c] =
          Settle([@ EXCEPT !.pc = "done", !.exitListener = FALSE, !.stderrOpen = FALSE,
                           !.startedMsg = TRUE,
                           !.established = HasRow(table, c, "primary")],
                 "success", <<>>)]
    /\ UNCHANGED <<hostVars, table, stopVars, console, nextPid, chain, parseVars, cmdVars>>

(***************************************************************************)
(* The job `( kubectl ... || minikube ... ) &` and the forwarding clients  *)
(***************************************************************************)
\* the subshell runs the left side of `||`
ShellLaunchPrimary(c) ==
    /\ chain[c] = "launchPrimary"
    /\ table' = Append(table,
          NewRow(nextPid, "kubectl",
                 Trim(kubectlCmd(start[c].serviceName, start[c].localPort,
                                 start[c].remotePort, start[c].context)),
                 c, "primary"))
    /\ nextPid' = nextPid + 1
    /\ chain' = [chain EXCEPT ![c] = "primary"]
    /\ start' = [start EXCEPT ![c] = [@ EXCEPT !.primaryRan = TRUE]]
    /\ UNCHANGED <<hostVars, stopVars, console, parseVars, cmdVars>>

\* a forwarding client ends on its own (no such service, port in use,
\* connection to the cluster lost, ...)
ClientExits(c) ==
    \E k \in 1..Len(table), status \in ExitStatuses :
        /\ table[k].tunnel = c
        /\ table[k].role \in {"primary", "fallback"}
        /\ table' = TableAfter(platform, table, chain, table[k].pid, status)
        /\ chain' = ChainAfterPid(platform, table, chain, table[k].pid, status)
        /\ start' = [NoteChain(start, chain, chain') EXCEPT ![c] =
              [@ EXCEPT !.pipe = IF status # 0 /\ platform = "posix"
                                 THEN Append(@, table[k].exe) ELSE @]]
        /\ UNCHANGED <<hostVars, stopVars, console, nextPid, parseVars, cmdVars>>

\* the subshell runs the right side of `||`; when minikube cannot be
\* executed the job ends with status 127
ShellLaunchFallback(c) ==
    /\ chain[c] = "launchFallback"
    /\ IF minikubeReachable
       THEN /\ table' = Append(table,
                  NewRow(nextPid, "minikube",
                         Trim(minikubeCmd(start[c].serviceName, start[c].localPort,
                                          start[c].remotePort, start[c].context)),
                         c, "fallback"))
            /\ nextPid' = nextPid + 1
            /\ chain' = [chain EXCEPT ![c] = "fallback"]
            /\ start' = [start EXCEPT ![c] = [@ EXCEPT !.fallbackLaunched = TRUE]]
       ELSE /\ table' = RemoveShell(table, c)
            /\ chain' = [chain EXCEPT ![c] = "failed"]
            /\ start' = [NoteChain(start, chain, chain') EXCEPT ![c] =
                  [@ EXCEPT !.pipe = Append(@, "bash")]]
            /\ UNCHANGED nextPid
    /\ UNCHANGED <<hostVars, stopVars, console, parseVars, cmdVars>>

(***************************************************************************)
(* Actions of list, stop and stopAll                                       *)
(***************************************************************************)
\* history: every start call has returned, its launcher has done its work
\* and its job is not about to launch a client
NoStartRuns ==
    \A c \in DOMAIN start :
        /\ start[c].pc = "done"
        /\ start[c].launcher # "spawned"
        /\ chain[c] \notin {"launchPrimary", "launchFallback"}

\* list(): one scan, then the deduplication
List ==
    /\ stopPc # "kill"
    /\ \E scan \in {listAllGuarded(platform, table, queryFault)} :
          /\ listRunning' = scan.entries
          /\ listThrew' = scan.threw
          /\ listResult' = IF scan.threw THEN <<>> ELSE list(scan.entries)
    /\ listDone' = TRUE
    /\ UNCHANGED <<hostVars, table, stopPc, stopMode, servicePrefix, running, matching,
                   stopIdx, logged, stopRet, kills, scanQuiet, console, nextPid, chain, start,
                   parseVars, cmdVars>>

\* stop(servicePrefix), lines 318-331: the scan, the filter, the early return
StopScan(prefix) ==
    /\ stopPc = "idle"
    /\ stopMode' = "stop"
    /\ servicePrefix' = prefix
    /\ \E scan \in {listAllGuarded(platform, table, queryFault)} :
          /\ running' = scan.entries
          /\ \E found \in {StopCandidates(scan.entries, prefix)} :
                /\ matching' = found
                /\ IF scan.threw
                   THEN /\ stopPc' = "failed"
                        /\ UNCHANGED <<stopRet, console>>
                   ELSE IF found = <<>>
                   THEN /\ stopPc' = "done"
                        /\ stopRet' = 0
                        /\ console' = Append(console, "NoRunningMatching")
                   ELSE /\ stopPc' = "kill"
                        /\ UNCHANGED <<stopRet, console>>
    /\ stopIdx' = 1
    /\ logged' = {}
    /\ scanQuiet' = NoStartRuns
    /\ UNCHANGED <<hostVars, table, listRunning, listResult, listDone, listThrew, kills,
                   nextPid, chain, start, parseVars, cmdVars>>

\* stopAll(), lines 355-367: the scan and the early return
StopAllScan ==
    /\ stopPc = "idle"
    /\ stopMode' = "stopAll"
    /\ \E scan \in {listAllGuarded(platform, table, queryFault)} :
          /\ running' = scan.entries
          /\ \E found \in {StopAllCandidates(scan.entries)} :
                /\ matching' = found
                /\ IF scan.threw
                   THEN /\ stopPc' = "failed"
                        /\ UNCHANGED <<stopRet, console>>
                   ELSE IF found = <<>>
                   THEN /\ stopPc' = "done"
                        /\ stopRet' = 0
                        /\ console' = Append(console, "NoRunning")
                   ELSE /\ stopPc' = "kill"
                        /\ UNCHANGED <<stopRet, console>>
    /\ stopIdx' = 1
    /\ logged' = {}
    /\ scanQuiet' = NoStartRuns
    /\ UNCHANGED <<hostVars, table, listRunning, listResult, listDone, listThrew,
                   servicePrefix, kills,
                   nextPid, chain, start, parseVars, cmdVars>>

\* a killProcess whose promise rejects when the command fails
KillRejectsOnFailure(succeeded) == ~succeeded

\* killProcess, lines 395-410: the try/catch swallows the error of a failed
\* `kill` / `taskkill`, so the promise killProcess returns never rejects
KillRejects(succeeded) == FALSE

\* one iteration of the loop of stop (lines 333-346) or stopAll (lines
\* 369-382); after the last one the call returns logged.size.  Were the
\* awaited killProcess to reject, the call would end there ("failed").
StopKill ==
    /\ stopPc = "kill"
    /\ LET pf == matching[stopIdx]
           rejected == HasPid(pf) /\ KillRejects(Alive(table, pf.pid))
       IN  /\ IF HasPid(pf)
              THEN /\ kills' = Append(kills, <<pf.pid, Alive(table, pf.pid)>>)
                   /\ table' = killProcess(platform, table, chain, pf.pid)
                   /\ chain' = ChainAfterPid(platform, table, chain, pf.pid, KilledStatus)
                   /\ start' = NoteChain(start, chain, chain')
                   /\ logged' = IF rejected THEN logged ELSE logged \cup {LoggedKey(pf)}
                   /\ console' = IF rejected \/ LoggedKey(pf) \in logged THEN console
                                 ELSE Append(console, "Stopped")
              ELSE UNCHANGED <<kills, table, chain, start, logged, console>>
           /\ IF rejected
              THEN stopPc' = "failed" /\ UNCHANGED stopRet
              ELSE IF stopIdx = Len(matching)
              THEN stopPc' = "done" /\ stopRet' = Cardinality(logged')
              ELSE UNCHANGED <<stopPc, stopRet>>
    /\ stopIdx' = stopIdx + 1
    /\ UNCHANGED <<hostVars, listRunning, listResult, listDone, listThrew, stopMode, servicePrefix,
                   running, matching, scanQuiet, nextPid, parseVars, cmdVars>>

\* the process stop is about to terminate ends on its own first (stop is
\* between two awaits), so that the terminate call will fail
ProcessExits ==
    /\ stopPc = "kill"
    /\ HasPid(matching[stopIdx])
    /\ Alive(table, matching[stopIdx].pid)
    /\ RowOf(table, matching[stopIdx].pid).tunnel = 0
    /\ table' = RemoveProc(table, matching[stopIdx].pid)
    /\ UNCHANGED <<hostVars, stopVars, console, nextPid, chain, start, parseVars, cmdVars>>

(***************************************************************************)
(* ConfigParser.parse as a state machine: one step per line of the text    *)
(***************************************************************************)
\* largest number of lines of a configuration text
MaxLines == 4

L_openWithContext == <<"g", ":", " ", "{", " ", "c", "o", "n", "t", "e", "x", "t", ":", " ", "p", "r", "o", "d">>

L_service == <<" ", " ", "s", "v", "c", "-", "a", ",", "8", "0", "8", "0", ",", "8", "0">>

L_close == <<"}">>

L_open == <<"g", ":", " ", "{">>

L_context == <<"c", "o", "n", "t", "e", "x", "t", ":", " ", "p", "r", "o", "d">>

L_comment == <<"#", " ", "c">>

L_blank == <<>>

L_service2 == <<"w", "e", "b", ",", " ", "3", "0", "0", "0", ",", "3", "0", "0", "0", ";">>

ConfigLines == {L_openWithContext, L_service, L_close, L_open, L_context, L_comment,
                L_blank, L_service2}

FileNames == {NoFile, <<"t", "e", "s", "t", ".", "c", "o", "n", "f", "i", "g">>}

RECURSIVE JoinLines(_)
JoinLines(ls) ==
    IF Len(ls) = 0 THEN <<>>
    ELSE IF Len(ls) = 1 THEN ls[1]
    ELSE ls[1] \o <<"\n">> \o JoinLines(Tail(ls))

Texts == UNION { {JoinLines(ls) : ls \in [1..n -> ConfigLines]} : n \in 0..MaxLines }

\* service lines with a malformed field list or a malformed port
MalformedLines ==
    { <<"a", "p", "i", ",", "8", "0", "8", "0">>,
      <<"a", "p", "i", ",", "8", "0", ",", "8", "0", ",", "1">>,
      <<"a", "p", "i", ",", ",", "8", "0">>,
      <<"a", "p", "i", ",", "8", "0", "a", ",", "8", "0">>,
      <<"a", "p", "i", ",", "8", "0", ",", "8", "0", ".", "5">>,
      <<"a", "p", "i", ",", "0", ",", "8", "0">>,
      <<"a", "p", "i", ",", "8", "0", ",", "6", "5", "5", "3", "6">>,
      <<"a", "p", "i", ",", "-", "1", ",", "8", "0">>,
      <<"a", "p", "i", ",", "x", ",", "8", "0">>,
      <<"a", "p", "i", ",", "6", "5", "5", "3", "5", ",", "1">> }

\* longer texts: a group around each of these lines, a group name that is
\* used twice, and a group with comment, blank and context lines between
\* its service lines
LongTexts ==
    { JoinLines(<<L_open, L_service, l, L_close>>) : l \in MalformedLines }
    \cup { JoinLines(<<L_open, L_service, L_close, L_open, L_service2, L_service, L_close>>),
           JoinLines(<<L_open, L_context, L_service, L_close, L_open, L_service2, L_close>>),
           JoinLines(<<L_open, L_comment, L_service, L_blank, L_context, L_service2, L_close>>) }

ParserIdle ==
    /\ lines = <<>>
    /\ lineIdx = 0
    /\ parser = ParserState(FALSE, <<>>, <<>>, <<>>)
    /\ parsePc = "start"

\* parse is called: lines 29-32
ParseBegin ==
    /\ parsePc = "start"
    /\ lines' = SplitOn(content, "\n")
    /\ lineIdx' = 0
    /\ parser' = ParserState(FALSE, <<>>, <<>>, <<>>)
    /\ parsePc' = "loop"
    /\ UNCHANGED <<managerVars, cmdVars, content, filename>>

\* one iteration of the loop, lines 34-187; a throw ends parse
ParseLine ==
    /\ parsePc = "loop"
    /\ lineIdx < Len(lines)
    /\ parser' = ParseStep(parser, lines[lineIdx + 1], filename, lineIdx + 1)
    /\ lineIdx' = lineIdx + 1
    /\ parsePc' = IF parser'.error # <<>> THEN "done" ELSE "loop"
    /\ UNCHANGED <<managerVars, cmdVars, content, filename, lines>>

\* the loop is over: lines 189-197
ParseEnd ==
    /\ parsePc = "loop"
    /\ lineIdx = Len(lines)
    /\ parser' = ParseFinish(parser, filename)
    /\ parsePc' = "done"
    /\ UNCHANGED <<managerVars, cmdVars, content, filename, lines, lineIdx>>

(***************************************************************************)
(* stopCommand (src/src/commands/stop.ts) and upCommand                    *)
(* (src/src/commands/up.ts)                                                *)
(***************************************************************************)
NoExit == 0 - 1

\* stopCommand, lines 4-16, once stop has settled: the summary line, or
\* handleError for a rejection; a command that returns ends with status 0
StopCommandEnds ==
    /\ stopMode = "stop"
    /\ stopPc \in {"done", "failed"}
    /\ exitCode = NoExit
    /\ IF stopPc = "failed"
       THEN /\ exitCode' = handleError("Error")
            /\ console' = Append(console, "UnexpectedError")
       ELSE /\ exitCode' = 0
            /\ console' = Append(console, IF stopRet > 0 THEN "StoppedCount"
                                          ELSE "NoRunningMatching")
    /\ UNCHANGED <<hostVars, table, stopVars, nextPid, chain, start, parseVars, up, lookup>>

L_openH == <<"h", ":", " ", "{">>

L_service3 == <<"s", "v", "c", "-", "b", ",", "8", "0", "8", "1", ",", "8", "0">>

\* configuration texts of up: groups of three, two and one services, with and
\* without a context, two groups, and a text parse rejects
UpTexts ==
    { JoinLines(<<L_open, L_context, L_service, L_service3, L_service2, L_close>>),
      JoinLines(<<L_open, L_service3, L_service, L_close>>),
      JoinLines(<<L_openWithContext, L_service2, L_service3, L_close>>),
      JoinLines(<<L_open, L_service, L_close>>),
      JoinLines(<<L_open, L_service, L_close, L_openH, L_context, L_service3, L_close>>),
      JoinLines(<<L_service>>) }

UpGroupNames == {<<"g">>, <<"h">>}

UpPrefixes == {<<>>, <<"s", "v", "c">>, <<"w", "e">>, <<"x">>}

\* how a call of PortForwardManager.start ends for its caller: it resolves,
\* or rejects with a PortForwardError or a KubectlNotFoundError
StartOutcomes == {"success", "PortForwardError", "KubectlNotFoundError"}

IdleUp ==
    [pc |-> "idle",             \* "idle", "loop", "returned" or "exited"
     text |-> <<>>,             \* the content of the configuration file
     readable |-> TRUE,         \* readConfig could read the file
     groupName |-> <<>>,        \* the arguments of upCommand
     servicePrefix |-> <<>>,
     services |-> <<>>,         \* the services to start (line 33)
     context |-> <<>>,          \* group.context
     group |-> <<>>,            \* group.services, the services of the group found
     idx |-> 1,                 \* position of the loop in services
     calls |-> <<>>,            \* the calls of start so far, with their outcome
     successfulServices |-> <<>>,
     warnings |-> <<>>,         \* services of the console.warn lines
     error |-> "none"]          \* the error handed to handleError

\* a catch of the loop that passes every error on
RethrownAlways(outcome) == outcome # "success"

\* lines 52-54: the catch of the loop passes a KubectlNotFoundError on
Rethrown(outcome) == outcome = "KubectlNotFoundError"

\* upCommand, lines 8-40: read and parse the configuration, find the group
\* and the services; an error goes to handleError
UpCommand(text, readable, groupName, prefix) ==
    /\ up.pc = "idle"
    /\ LET parsed == parse(text, NoFile)
           found == findGroup(parsed.groups, groupName)
           services == findServicesWithPrefix(found[1], prefix)
           error == IF ~readable \/ parsed.error # <<>> THEN "ConfigParseError"
                    ELSE IF found = <<>> THEN "GroupNotFoundError"
                    ELSE IF services = <<>> THEN "ServiceNotFoundError"
                    ELSE "none"
           called == [up EXCEPT !.text = text, !.readable = readable,
                                !.groupName = groupName, !.servicePrefix = prefix]
       IN  IF error # "none"
           THEN /\ up' = [called EXCEPT !.pc = "exited", !.error = error]
                /\ exitCode' = handleError(error)
           ELSE /\ up' = [called EXCEPT !.pc = "loop", !.services = services,
                                    !.context = found[1].context,
                                    !.group = found[1].services]
                /\ UNCHANGED exitCode
    /\ UNCHANGED <<managerVars, parseVars, lookup>>

\* one iteration of the loop, lines 44-57: the call of start and its outcome
UpStart ==
    /\ up.pc = "loop"
    /\ up.idx <= Len(up.services)
    /\ \E outcome \in StartOutcomes :
          LET service == up.services[up.idx]
              called == [up EXCEPT !.calls = Append(@, [serviceName |-> service.name,
                                                        localPort |-> service.localPort,
                                                        remotePort |-> service.remotePort,
                                                        context |-> up.context,
                                                        outcome |-> outcome])]
          IN  IF outcome = "success"
              THEN /\ up' = [called EXCEPT !.successfulServices = Append(@, service.name),
                                           !.idx = @ + 1]
                   /\ UNCHANGED exitCode
              ELSE IF Rethrown(outcome)
              THEN /\ up' = [called EXCEPT !.pc = "exited", !.error = outcome]
                   /\ exitCode' = handleError(outcome)
              ELSE /\ up' = [called EXCEPT !.warnings = Append(@, service.name), !.idx = @ + 1]
                   /\ UNCHANGED exitCode
    /\ UNCHANGED <<managerVars, parseVars, lookup>>

\* a summary that asks for every service to have started
UpSucceededAll(successfulServices, services) == Len(successfulServices) = Len(services)

\* line 59: successfulServices.length > 0
UpSucceeded(successfulServices, services) == Len(successfulServices) > 0

\* after the loop, lines 59-67
UpSummary ==
    /\ up.pc = "loop"
    /\ up.idx > Len(up.services)
    /\ IF UpSucceeded(up.successfulServices, up.services)
       THEN up' = [up EXCEPT !.pc = "returned"] /\ exitCode' = 0
       ELSE up' = [up EXCEPT !.pc = "exited"] /\ exitCode' = 1
    /\ UNCHANGED <<managerVars, parseVars, lookup>>

(***************************************************************************)
(* ConfigParser.findGroup and ConfigParser.findServicesWithPrefix, called   *)
(* on configurations, names and prefixes of any kind                       *)
(***************************************************************************)
Service(name, localPort, remotePort) ==
    [name |-> name, localPort |-> localPort, remotePort |-> remotePort]

W_svc_a == <<"s", "v", "c", "-", "a">>

W_web == <<"w", "e", "b">>

W_svc_b == <<"s", "v", "c", "-", "b">>

\* groups handed to the lookups; findServicesWithPrefix takes any Group, one
\* without services too (line 224)
FindGroups ==
    { [name |-> <<"g">>, context |-> <<>>, services |-> <<>>],
      [name |-> <<"g">>, context |-> <<>>,
       services |-> <<Service(W_svc_a, 8080, 80), Service(W_svc_b, 8081, 80),
                      Service(W_web, 3000, 3000)>>],
      [name |-> <<"g">>, context |-> <<"p", "r", "o", "d">>,
       services |-> <<Service(W_svc_b, 8081, 80)>>],
      [name |-> <<"h">>, context |-> <<>>,
       services |-> <<Service(W_web, 3000, 3000), Service(W_svc_a, 8080, 80)>>] }

\* configurations: maps of one or two groups of different names
FindConfigs ==
    { <<g>> : g \in FindGroups }
    \cup { <<g, h>> : g \in {x \in FindGroups : x.name = <<"g">>},
                      h \in {x \in FindGroups : x.name = <<"h">>} }

FindGroupNames == {<<"g">>, <<"h">>, <<"m">>}

FindPrefixes ==
    { <<>>, <<"s">>, <<"s", "v", "c">>, W_svc_a, <<"S", "v", "c">>, <<"v", "c">>,
      <<"s", "v", "c", "-", "*">>, <<"w">> }

IdleLookup ==
    [pc |-> "idle",             \* "start", "services", "longer" or "done"
     config |-> <<>>,           \* config.groups
     groupName |-> <<>>,
     prefix |-> <<>>,           \* servicePrefix of the first lookup of services
     longer |-> <<>>,           \* servicePrefix of the second lookup of services
     group |-> <<>>,            \* <<g>>: findGroup returned g
     error |-> "none",          \* the error findGroup or the first lookup threw
     services |-> <<>>,         \* the return value of the first lookup
     longerError |-> "none",
     longerServices |-> <<>>]

\* findGroup(config, groupName), lines 207-213
FindGroupCall ==
    /\ lookup.pc = "start"
    /\ LET found == findGroup(lookup.config, lookup.groupName)
       IN  lookup' = IF found = <<>>
                     THEN [lookup EXCEPT !.pc = "done", !.error = "GroupNotFoundError"]
                     ELSE [lookup EXCEPT !.pc = "services", !.group = found]
    /\ UNCHANGED <<managerVars, parseVars, up, exitCode>>

\* findServicesWithPrefix(group, prefix), lines 222-237
FindServicesCall ==
    /\ lookup.pc = "services"
    /\ LET found == findServicesWithPrefix(lookup.group[1], lookup.prefix)
       IN  lookup' = [lookup EXCEPT !.pc = "longer", !.services = found,
                                    !.error = IF found = <<>> THEN "ServiceNotFoundError"
                                              ELSE "none"]
    /\ UNCHANGED <<managerVars, parseVars, up, exitCode>>

\* findServicesWithPrefix(group, longer), lines 222-237
FindLongerCall ==
    /\ lookup.pc = "longer"
    /\ LET found == findServicesWithPrefix(lookup.group[1], lookup.longer)
       IN  lookup' = [lookup EXCEPT !.pc = "done", !.longerServices = found,
                                    !.longerError = IF found = <<>> THEN "ServiceNotFoundError"
                                                    ELSE "none"]
    /\ UNCHANGED <<managerVars, parseVars, up, exitCode>>

CommandIdle == up = IdleUp /\ exitCode = NoExit

LookupIdle == lookup = IdleLookup

(***************************************************************************)
(* Specification of list, stop and stopAll over process-table snapshots    *)
(***************************************************************************)
ManagerIdleOf(calls) ==
    /\ listRunning = <<>>
    /\ listResult = <<>>
    /\ listDone = FALSE
    /\ listThrew = FALSE
    /\ stopPc = "idle"
    /\ stopMode = "none"
    /\ servicePrefix = <<>>
    /\ running = <<>>
    /\ matching = <<>>
    /\ stopIdx = 1
    /\ logged = {}
    /\ stopRet = 0
    /\ kills = <<>>
    /\ scanQuiet = FALSE
    /\ console = <<>>
    /\ chain = [c \in calls |-> "none"]
    /\ start = [c \in calls |-> IdleStart]
    /\ content = <<>>
    /\ filename = NoFile
    /\ ParserIdle
    /\ CommandIdle

ManagerIdle == ManagerIdleOf(Calls)

Init ==
    /\ platform \in {"posix", "win32"}
    /\ kubectlReachable = TRUE
    /\ minikubeReachable = TRUE
    /\ queryFault \in BOOLEAN
    /\ table \in Snapshots
    /\ nextPid = BasePid + MaxProcs + 1
    /\ ManagerIdle
    /\ LookupIdle

Stop == \E prefix \in Prefixes : StopScan(prefix)

Next ==
    \/ List
    \/ Stop
    \/ StopAllScan
    \/ StopKill
    \/ ProcessExits
    \/ StopCommandEnds

vars == <<managerVars, parseVars, cmdVars>>

Spec == Init /\ [][Next]_vars

(***************************************************************************)
(* Specification of start, with the processes it launches, and stopAll     *)
(***************************************************************************)
InitStart ==
    /\ platform \in {"posix", "win32"}
    /\ kubectlReachable \in BOOLEAN
    /\ minikubeReachable \in BOOLEAN
    /\ queryFault = FALSE
    /\ table = <<>>
    /\ nextPid = BasePid + 1
    /\ ManagerIdle
    /\ LookupIdle

Start == \E c \in Calls, args \in StartArgs : StartCall(c, args)

NextStart ==
    \/ Start
    \/ \E c \in Calls : StartCheck(c)
    \/ \E c \in Calls : StartSpawn(c)
    \/ \E c \in Calls : LauncherRuns(c)
    \/ \E c \in Calls : LauncherFails(c)
    \/ \E c \in Calls : SpawnFails(c)
    \/ \E c \in Calls : OnStderrData(c)
    \/ \E c \in Calls : OnError(c)
    \/ \E c \in Calls : OnExit(c)
    \/ \E c \in Calls : GraceTimer(c)
    \/ \E c \in Calls : ShellLaunchPrimary(c)
    \/ \E c \in Calls : ClientExits(c)
    \/ \E c \in Calls : ShellLaunchFallback(c)
    \/ Stop
    \/ StopAllScan
    \/ StopKill

SpecStart == InitStart /\ [][NextStart]_vars

(***************************************************************************)
(* Specification of one start call over a wider domain of arguments        *)
(***************************************************************************)
W_a_b_1 == <<"a", ".", "b", "-", "1">>

W_9 == <<"9">>

\* service names the parser accepts (validateServiceName)
CallNames == {Name_a, W_svc_a, W_a_b_1, W_9}

\* <<localPort, remotePort>> pairs in 1..65535
CallPorts == {<<1, 65535>>, <<8080, 80>>, <<65535, 1>>, <<80, 80>>}

\* arguments validateStartParams accepts
CallArgsValid ==
    { [serviceName |-> n, localPort |-> p[1], remotePort |-> p[2], context |-> x] :
        n \in CallNames, p \in CallPorts, x \in {NoContext, Ctx_c} }

\* arguments validateStartParams rejects
CallArgsInvalid ==
    { [serviceName |-> <<>>, localPort |-> 8080, remotePort |-> 80, context |-> NoContext],
      [serviceName |-> Name_a, localPort |-> 0, remotePort |-> 80, context |-> NoContext],
      [serviceName |-> Name_a, localPort |-> 65536, remotePort |-> 80, context |-> Ctx_c],
      [serviceName |-> Name_a, localPort |-> 8080, remotePort |-> 0, context |-> NoContext],
      [serviceName |-> Name_a, localPort |-> 8080, remotePort |-> 65536, context |-> NoContext],
      [serviceName |-> Name_a, localPort |-> 0 - 1, remotePort |-> 80, context |-> NoContext] }

CallArgs == CallArgsValid \cup CallArgsInvalid

Call == \E args \in CallArgs : StartCall(1, args)

NextCall ==
    \/ Call
    \/ StartCheck(1)
    \/ StartSpawn(1)
    \/ LauncherRuns(1)
    \/ LauncherFails(1)
    \/ SpawnFails(1)
    \/ OnStderrData(1)
    \/ OnError(1)
    \/ OnExit(1)
    \/ GraceTimer(1)
    \/ ShellLaunchPrimary(1)
    \/ ClientExits(1)
    \/ ShellLaunchFallback(1)

SpecCall == InitStart /\ [][NextCall]_vars

\* the same call under the scheduling of the event loop: the continuation
\* of the awaited availability check runs (line 75), the promise executor
\* runs in the same turn (lines 78-181), and a timer set with setTimeout
\* fires (line 167).  Nothing obliges the spawned processes to end.
SpecCallFair ==
    /\ SpecCall
    /\ WF_vars(StartCheck(1))
    /\ WF_vars(StartSpawn(1))
    /\ WF_vars(GraceTimer(1))

(***************************************************************************)
(* Specification of concurrent calls of start (two `up` runs at a time)    *)
(* for one service and one local port                                      *)
(***************************************************************************)
\* largest number of calls of start in progress at a time
MaxConcurrent == 2

ConcurrentCalls == 1..MaxConcurrent

\* the arguments every one of the concurrent calls is made with
SameArgs == [serviceName |-> Name_a, localPort |-> 8080, remotePort |-> 80, context |-> NoContext]

InitConcurrent ==
    /\ platform \in {"posix", "win32"}
    /\ kubectlReachable = TRUE
    /\ minikubeReachable \in BOOLEAN
    /\ queryFault = FALSE
    /\ table = <<>>
    /\ nextPid = BasePid + 1
    /\ ManagerIdleOf(ConcurrentCalls)
    /\ LookupIdle

NextConcurrent ==
    \/ \E c \in ConcurrentCalls : StartCall(c, SameArgs)
    \/ \E c \in ConcurrentCalls : StartCheck(c)
    \/ \E c \in ConcurrentCalls : StartSpawn(c)
    \/ \E c \in ConcurrentCalls : LauncherRuns(c)
    \/ \E c \in ConcurrentCalls : LauncherFails(c)
    \/ \E c \in ConcurrentCalls : SpawnFails(c)
    \/ \E c \in ConcurrentCalls : OnStderrData(c)
    \/ \E c \in ConcurrentCalls : OnError(c)
    \/ \E c \in ConcurrentCalls : OnExit(c)
    \/ \E c \in ConcurrentCalls : GraceTimer(c)
    \/ \E c \in ConcurrentCalls : ShellLaunchPrimary(c)
    \/ \E c \in ConcurrentCalls : ClientExits(c)
    \/ \E c \in ConcurrentCalls : ShellLaunchFallback(c)

SpecConcurrent == InitConcurrent /\ [][NextConcurrent]_vars


(***************************************************************************)
(* Specification of ConfigParser.parse over configuration texts            *)
(***************************************************************************)
HostIdle ==
    /\ platform = "posix"
    /\ kubectlReachable = TRUE
    /\ minikubeReachable = TRUE
    /\ queryFault = FALSE
    /\ table = <<>>
    /\ nextPid = BasePid + 1

InitParse ==
    /\ HostIdle
    /\ listRunning = <<>>
    /\ listResult = <<>>
    /\ listDone = FALSE
    /\ listThrew = FALSE
    /\ stopPc = "idle"
    /\ stopMode = "none"
    /\ servicePrefix = <<>>
    /\ running = <<>>
    /\ matching = <<>>
    /\ stopIdx = 1
    /\ logged = {}
    /\ stopRet = 0
    /\ kills = <<>>
    /\ scanQuiet = FALSE
    /\ console = <<>>
    /\ chain = [c \in Calls |-> "none"]
    /\ start = [c \in Calls |-> IdleStart]
    /\ content \in Texts \cup LongTexts
    /\ filename \in FileNames
    /\ ParserIdle
    /\ CommandIdle
    /\ LookupIdle

NextParse ==
    \/ ParseBegin
    \/ ParseLine
    \/ ParseEnd

SpecParse == InitParse /\ [][NextParse]_vars

(***************************************************************************)
(* Specification of upCommand                                              *)
(***************************************************************************)
InitUp == HostIdle /\ ManagerIdle /\ LookupIdle

Up ==
    \E text \in UpTexts, readable \in BOOLEAN, groupName \in UpGroupNames, prefix \in UpPrefixes :
        UpCommand(text, readable, groupName, prefix)

NextUp ==
    \/ Up
    \/ UpStart
    \/ UpSummary

SpecUp == InitUp /\ [][NextUp]_vars

(***************************************************************************)
(* Specification of findGroup and findServicesWithPrefix                   *)
(***************************************************************************)
InitFind ==
    /\ HostIdle
    /\ ManagerIdleOf(Calls)
    /\ \E config \in FindConfigs, groupName \in FindGroupNames,
          prefix \in FindPrefixes, longer \in FindPrefixes :
          lookup = [IdleLookup EXCEPT !.pc = "start", !.config = config,
                                      !.groupName = groupName, !.prefix = prefix,
                                      !.longer = longer]

NextFind ==
    \/ FindGroupCall
    \/ FindServicesCall
    \/ FindLongerCall

SpecFind == InitFind /\ [][NextFind]_vars

(***************************************************************************)
(* Properties of list and stop                                             *)
(***************************************************************************)
\* the identity of a logical tunnel
TunnelKey(pf) == <<pf.serviceName, pf.localPort, pf.remotePort>>

\* the positions of the scan that stop(servicePrefix) is to terminate
ToTerminate(scan, prefix) ==
    {k \in 1..Len(scan) : StartsWith(scan[k].serviceName, prefix) /\ scan[k].pid # NoPid}

\* the pids of the positions S of the scan, in scan order
RECURSIVE PidsInOrder(_, _, _)
PidsInOrder(scan, S, k) ==
    IF k > Len(scan) THEN <<>>
    ELSE (IF k \in S THEN <<scan[k].pid>> ELSE <<>>) \o PidsInOrder(scan, S, k + 1)

KilledPids == [k \in 1..Len(kills) |-> kills[k][1]]

StopReturned == stopPc = "done" /\ stopMode = "stop"

\* C1: stop(prefix) returns the number of distinct logical tunnels, that is
\* of distinct (serviceName, localPort, remotePort) keys, among the scanned
\* entries whose serviceName starts with prefix and that have a pid.
C1_StopReturnsDistinctTunnels ==
    StopReturned =>
        stopRet = Cardinality({TunnelKey(running[k]) : k \in ToTerminate(running, servicePrefix)})

\* C2: stop(prefix) issues exactly one terminate call for every entry of
\* the undeduplicated scan whose serviceName starts with prefix and that
\* has a pid, in scan order; two entries of one logical tunnel with
\* different pids give a list of size 1, a return value of 1 and 2 calls.
C2_OneKillPerScannedEntry ==
    StopReturned =>
        /\ KilledPids = PidsInOrder(running, ToTerminate(running, servicePrefix), 1)
        /\ (/\ Len(running) = 2
            /\ TunnelKey(running[1]) = TunnelKey(running[2])
            /\ running[1].pid # NoPid /\ running[2].pid # NoPid
            /\ running[1].pid # running[2].pid
            /\ StartsWith(running[1].serviceName, servicePrefix))
           => (Len(list(running)) = 1 /\ stopRet = 1 /\ Len(kills) = 2)

C2_Witness ==
    /\ StopReturned
    /\ Len(running) = 2
    /\ TunnelKey(running[1]) = TunnelKey(running[2])
    /\ running[1].pid # NoPid /\ running[2].pid # NoPid
    /\ Len(kills) = 2
    /\ stopRet = 1

\* first position of the scan that holds the tunnel key of pf
FirstIndex(scan, pf) == SetMin({k \in 1..Len(scan) : TunnelKey(scan[k]) = TunnelKey(pf)})

\* C7: list returns exactly one PortForward per distinct (serviceName,
\* localPort, remotePort) key of the scan; it is the first scanned entry
\* with that key, pid included; the records are in order of first occurrence.
C7_ListKeepsFirstPerKey ==
    listDone =>
        /\ {TunnelKey(listResult[i]) : i \in 1..Len(listResult)}
              = {TunnelKey(listRunning[k]) : k \in 1..Len(listRunning)}
        /\ \A i, j \in 1..Len(listResult) :
              i # j => TunnelKey(listResult[i]) # TunnelKey(listResult[j])
        /\ \A i \in 1..Len(listResult) :
              listResult[i] = listRunning[FirstIndex(listRunning, listResult[i])]
        /\ \A i, j \in 1..Len(listResult) :
              i < j => FirstIndex(listRunning, listResult[i]) < FirstIndex(listRunning, listResult[j])

C7_Witness ==
    /\ listDone
    /\ Len(listRunning) = 2
    /\ Len(listResult) = 1
    /\ listRunning[1].pid # listRunning[2].pid
    /\ listResult[1].pid = listRunning[1].pid
    /\ listResult[1].pid # NoPid

NoSharedKey(scan) ==
    \A i, j \in 1..Len(scan) : i # j => TunnelKey(scan[i]) # TunnelKey(scan[j])

\* C8: list applied again to the same snapshot yields the same result,
\* deduplicating the deduplicated list changes nothing, and the size of the
\* list is at most the size of the scan, with equality iff no two scanned
\* entries share a (serviceName, localPort, remotePort) key.
C8_DedupIdempotent ==
    listDone =>
        /\ (listAllGuarded(platform, table, queryFault).entries = listRunning
               => list(listAllGuarded(platform, table, queryFault).entries) = listResult)
        /\ list(listResult) = listResult
        /\ Len(listResult) <= Len(listRunning)
        /\ (Len(listResult) = Len(listRunning)) <=> NoSharedKey(listRunning)

C8_Witness ==
    /\ listDone
    /\ Len(listRunning) = 2
    /\ ~NoSharedKey(listRunning)
    /\ Len(listResult) < Len(listRunning)

\* C9: stop(prefix) issues a terminate call only for pids of its own scan
\* whose scanned serviceName starts with prefix, compared case-sensitively;
\* the scanned processes of the other services stay in the process table.
C9_StopTouchesOnlyMatching ==
    (stopMode = "stop") =>
        /\ \A c \in 1..Len(kills) :
              \E k \in 1..Len(running) :
                  /\ running[k].pid = kills[c][1]
                  /\ StartsWith(running[k].serviceName, servicePrefix)
        /\ \A k \in 1..Len(running) :
              (running[k].pid # NoPid /\ ~StartsWith(running[k].serviceName, servicePrefix))
                  => Alive(table, running[k].pid)

C9_Witness ==
    /\ StopReturned
    /\ Len(kills) >= 1
    /\ \E k \in 1..Len(running) :
          /\ running[k].pid # NoPid
          /\ ~StartsWith(running[k].serviceName, servicePrefix)
          /\ Alive(table, running[k].pid)


(***************************************************************************)
(* Properties of start                                                     *)
(***************************************************************************)
\* C3: when the forwarding client launched by start (kubectl, and on POSIX
\* the minikube fallback tried after it) ends with a status other than 0
\* before the 500 ms timer fires, start fails with a PortForwardError that
\* carries the accumulated standard-error text; start reports success only
\* when no such failure happened before the timer fired.
C3_EarlyClientFailureFailsStart ==
    \A c \in Calls :
        /\ start[c].outcome = "success" => ~start[c].failedEarly
        /\ (start[c].pc = "done" /\ start[c].failedEarly)
              => (start[c].outcome = "PortForwardError" /\ start[c].reason = start[c].errorOutput)

\* C10: the fallback client (minikube kubectl) is started for a tunnel only
\* if kubectl failed at the moment of launch: never for a tunnel whose
\* kubectl was running when start reported success, whatever happens to
\* that kubectl later; on Windows only kubectl is ever launched.
C10_FallbackOnlyOnLaunchFailure ==
    \A c \in Calls :
        /\ start[c].fallbackLaunched => ~(start[c].established /\ start[c].outcome = "success")
        /\ platform = "win32" => ~start[c].fallbackLaunched


(***************************************************************************)
(* Properties of parse                                                     *)
(***************************************************************************)
ParseThrew == parsePc = "done" /\ parser.error # <<>>

\* a group-open line of the text with no closing "}" line after it
GroupLeftOpen(ls) ==
    \E i \in 1..Len(ls) :
        /\ GroupMatches(Trim(ls[i]))
        /\ \A j \in (i + 1)..Len(ls) : Trim(ls[j]) # <<"}">>

\* C4: parse fails with a ConfigParseError for every text in which a group
\* is still open after all lines are scanned (a group-open line with no
\* later closing "}"), however many groups were closed before it.
C4_OpenGroupAtEndFails ==
    (parsePc = "done" /\ GroupLeftOpen(lines)) => parser.error # <<>>

W_g == <<"g">>

W_prod == <<"p", "r", "o", "d">>

\* C5: the three-line text "g: { context: prod", "  svc-a,8080,80", "}"
\* parses to exactly one group g whose context is prod and whose services
\* are exactly [{svc-a, 8080, 80}].
C5_ContextOnOpenLineBelongsToGroup ==
    (parsePc = "done" /\ content = JoinLines(<<L_openWithContext, L_service, L_close>>))
        => /\ parser.error = <<>>
           /\ parser.groups =
                 <<[name |-> W_g, context |-> W_prod,
                    services |-> <<[name |-> W_svc_a, localPort |-> 8080, remotePort |-> 80]>>]>>

\* C6: every ConfigParseError raised by parse carries the 1-based number of
\* a line of the text, and carries the file name whenever parse was given one.
C6_ErrorCarriesLineAndFile ==
    ParseThrew =>
        /\ parser.error[1].line \in 1..Len(lines)
        /\ (filename # NoFile => parser.error[1].file = filename)

\* C11: on a POSIX host where kubectl cannot be executed but minikube can,
\* start launches the tunnel through `minikube kubectl -- port-forward ...`
\* and reports success instead of failing.
C11_FallbackWhenKubectlMissing ==
    \A c \in Calls :
        (/\ platform = "posix"
         /\ ~kubectlReachable
         /\ minikubeReachable
         /\ start[c].pc = "done"
         /\ ValidStartParams(start[c].serviceName, start[c].localPort, start[c].remotePort))
            => (start[c].outcome = "success" /\ start[c].fallbackLaunched)

(***************************************************************************)
(* Properties of one start call                                            *)
(***************************************************************************)
\* the literal `service/<serviceName> <localPort>:<remotePort>`
ServiceLiteral(serviceName, localPort, remotePort) ==
    W_service \o serviceName \o <<" ">> \o NumToText(localPort) \o <<":">> \o NumToText(remotePort)

\* the entries of a scan that carry the pid
EntriesOfPid(scan, pid) == {k \in 1..Len(scan) : scan[k].pid = pid}

\* the process of row k of the table was launched by start call c, and a
\* scan of the table finds it with the arguments of that call
ScanAgrees(c, k) ==
    LET scan == listAll(platform, table)
        st == start[c]
    IN  /\ Contains(table[k].cmd, ServiceLiteral(st.serviceName, st.localPort, st.remotePort))
        /\ EntriesOfPid(scan, table[k].pid) # {}
        /\ \A i \in EntriesOfPid(scan, table[k].pid) :
              TunnelKey(scan[i]) = <<st.serviceName, st.localPort, st.remotePort>>

\* C12: for every service name the parser accepts and every pair of ports
\* in 1..65535, with or without a context, the command line of every process
\* start launches contains `service/<name> <local>:<remote>`, and a scan of
\* the process table extracts exactly that (serviceName, localPort,
\* remotePort) from it.
C12_StartListAgree ==
    \A c \in Calls : \A k \in 1..Len(table) :
        table[k].tunnel = c => ScanAgrees(c, k)

C12_Witness ==
    \E k \in 1..Len(table) :
        /\ table[k].tunnel = 1
        /\ table[k].role = "fallback"
        /\ start[1].serviceName = W_a_b_1
        /\ start[1].localPort = 65535
        /\ start[1].context = Ctx_c
        /\ ScanAgrees(1, k)

\* start call c has launched a process that is in the process table
HasProcess(c) == \E k \in 1..Len(table) : table[k].tunnel = c

\* C13: within one start call the availability check completes before any
\* spawn attempt; when the check fails, start fails with
\* KubectlNotFoundError and no process is spawned.
C13_CheckPrecedesSpawn ==
    \A c \in Calls :
        /\ (start[c].pc \in {"spawn", "waiting"} \/ start[c].launcher # "none" \/ HasProcess(c))
              => start[c].checked = "ok"
        /\ start[c].checked = "failed"
              => /\ start[c].pc = "done"
                 /\ start[c].outcome = "KubectlNotFoundError"
                 /\ start[c].launcher = "none"
                 /\ ~HasProcess(c)
                 /\ ~start[c].primaryRan
                 /\ ~start[c].fallbackLaunched

C13_Witness ==
    /\ ~kubectlReachable
    /\ start[1].checked = "failed"
    /\ start[1].outcome = "KubectlNotFoundError"
    /\ table = <<>>

\* the arguments of start call c are not a non-empty service name and two
\* ports in 1..65535
InvalidCall(c) ==
    \/ start[c].serviceName = <<>>
    \/ start[c].localPort \notin 1..65535
    \/ start[c].remotePort \notin 1..65535

\* C14: start with an empty service name, or with a local or remote port
\* that is not an integer in 1..65535, fails immediately: no availability
\* check, no spawned process, and the process table (empty before the call)
\* unchanged.
C14_InvalidArgsFailAtOnce ==
    \A c \in Calls :
        (start[c].pc # "idle" /\ InvalidCall(c))
            => /\ start[c].pc = "done"
               /\ start[c].outcome = "PortForwardError"
               /\ start[c].checked = "none"
               /\ start[c].launcher = "none"
               /\ ~start[c].startedMsg
               /\ table = <<>>
               /\ nextPid = BasePid + 1

C14_Witness ==
    /\ start[1].pc = "done"
    /\ start[1].serviceName # <<>>
    /\ start[1].localPort = 65536
    /\ start[1].outcome = "PortForwardError"
    /\ start[1].checked = "none"

(***************************************************************************)
(* Properties of stop and stopAll                                          *)
(***************************************************************************)
\* the positions of the walked entries that have a pid
WithPid(entries) == {k \in 1..Len(entries) : entries[k].pid # NoPid}

\* C15: a failing terminate call (the process has already exited) never
\* makes stop or stopAll fail: the error is swallowed, the remaining matched
\* entries are still processed, and the tunnel is still counted in the
\* returned number.
C15_FailedKillIsSwallowed ==
    /\ stopPc # "failed"
    /\ stopPc = "done"
          => /\ KilledPids = PidsInOrder(matching, WithPid(matching), 1)
             /\ stopRet = Cardinality({<<matching[k].serviceName, matching[k].localPort>> :
                                          k \in WithPid(matching)})

C15_Witness ==
    /\ stopPc = "done"
    /\ Len(kills) = 2
    /\ ~kills[1][2]
    /\ kills[2][2]
    /\ stopRet = 2

\* the rows of the process table that the query selects and whose command
\* line matches `service/<name> <local>:<remote>`
ForwardRows(plat, tbl) ==
    {k \in 1..Len(tbl) : QuerySelects(plat, tbl[k]) /\ PatternMatches(tbl[k].cmd)}

\* list has returned and the process table is still the one it scanned
ListedThisTable == listDone /\ stopPc = "idle"

\* C16: list never fails: when the process table is empty, when no entry
\* matches the forwarding pattern, or when the process query itself ends
\* with an error, list returns the empty sequence; entries whose command
\* line does not match `service/<name> <local>:<remote>` are left out
\* without error.
C16_ListNeverFails ==
    /\ ~listThrew
    /\ ListedThisTable
          => /\ (table = <<>> \/ queryFault \/ ForwardRows(platform, table) = {})
                   => listResult = <<>>
             /\ ~queryFault => Len(listRunning) = Cardinality(ForwardRows(platform, table))

C16_Witness ==
    /\ ListedThisTable
    /\ queryFault
    /\ ForwardRows(platform, table) # {}
    /\ listResult = <<>>
    /\ ~listThrew

\* C17: when no scanned entry has a serviceName starting with prefix,
\* stop(prefix) returns 0, issues no terminate call and reports the
\* informational nothing-matched line, not an error; the stop command then
\* exits with status 0.
C17_NothingMatchedIsNotAnError ==
    (/\ stopMode = "stop"
     /\ stopPc # "idle"
     /\ \A k \in 1..Len(running) : ~StartsWith(running[k].serviceName, servicePrefix))
    => /\ stopPc = "done"
       /\ stopRet = 0
       /\ kills = <<>>
       /\ console # <<>>
       /\ \A k \in 1..Len(console) : console[k] = "NoRunningMatching"
       /\ exitCode \in {NoExit, 0}

C17_Witness ==
    /\ stopMode = "stop"
    /\ stopPc = "done"
    /\ running # <<>>
    /\ \A k \in 1..Len(running) : ~StartsWith(running[k].serviceName, servicePrefix)
    /\ stopRet = 0
    /\ exitCode = 0

\* what stop(prefix) leaves behind on the scan `running`: one terminate call
\* per scanned entry that starts with prefix and has a pid, in scan order,
\* and the number of distinct serviceName:localPort keys among them
StopOutcome(prefix) ==
    /\ KilledPids = PidsInOrder(running, ToTerminate(running, prefix), 1)
    /\ stopRet = Cardinality({LoggedKey(running[k]) : k \in ToTerminate(running, prefix)})

\* C18: stopAll is stop without a prefix filter: on every process-table
\* snapshot stopAll issues the terminate calls, in the order, and returns the
\* count, that stop issues and returns for the empty prefix.
C18_StopAllIsStopWithEmptyPrefix ==
    stopPc = "done" =>
        /\ stopMode = "stop" => StopOutcome(servicePrefix)
        /\ stopMode = "stopAll" => StopOutcome(<<>>)

C18_Witness ==
    /\ stopMode = "stopAll"
    /\ stopPc = "done"
    /\ Len(running) = 2
    /\ LoggedKey(running[1]) = LoggedKey(running[2])
    /\ Len(kills) = 2
    /\ stopRet = 1

UpEnded == up.pc \in {"returned", "exited"}

\* the service of a call of start, as a service of the configuration
CalledService(call) ==
    [name |-> call.serviceName, localPort |-> call.localPort, remotePort |-> call.remotePort]

\* C19: during up, start is called once per resolved service, in the order
\* the services appear in the group; a failure of start other than a
\* KubectlNotFoundError is logged as a warning and does not end the loop:
\* start is called for the later services too.
C19_FailureDoesNotBlockSiblings ==
    /\ Len(up.calls) <= Len(up.services)
    /\ \A k \in 1..Len(up.calls) :
          /\ CalledService(up.calls[k]) = up.services[k]
          /\ up.calls[k].context = up.context
    /\ \A j, k \in 1..Len(up.calls) :
          j < k => \E a, b \in 1..Len(up.group) :
                      /\ a < b
                      /\ up.group[a] = CalledService(up.calls[j])
                      /\ up.group[b] = CalledService(up.calls[k])
    /\ \A k \in 1..Len(up.calls) :
          up.calls[k].outcome = "PortForwardError" =>
              /\ \E w \in 1..Len(up.warnings) : up.warnings[w] = up.calls[k].serviceName
              /\ (k = Len(up.calls) /\ k < Len(up.services)) => up.pc = "loop"
    /\ (UpEnded /\ up.error = "none") => Len(up.calls) = Len(up.services)

C19_Witness ==
    /\ up.pc = "returned"
    /\ Len(up.services) = 3
    /\ Len(up.calls) = 3
    /\ up.calls[1].outcome = "PortForwardError"
    /\ up.calls[2].outcome = "success"
    /\ up.warnings = <<up.services[1].name>>

\* C20: during up, the first KubectlNotFoundError of start ends the batch at
\* once: start is called for no later service and the command exits with
\* status 127; every other fatal error exits with status 1.
C20_KubectlNotFoundAbortsWith127 ==
    /\ \A k \in 1..Len(up.calls) :
          up.calls[k].outcome = "KubectlNotFoundError" =>
              /\ k = Len(up.calls)
              /\ up.pc = "exited"
              /\ up.error = "KubectlNotFoundError"
              /\ exitCode = 127
    /\ up.pc = "exited" => exitCode = (IF up.error = "KubectlNotFoundError" THEN 127 ELSE 1)
    /\ up.pc = "returned" => exitCode = 0
    /\ up.pc \in {"idle", "loop"} => exitCode = NoExit

C20_Witness ==
    /\ up.pc = "exited"
    /\ Len(up.services) = 3
    /\ Len(up.calls) = 2
    /\ up.calls[1].outcome = "PortForwardError"
    /\ up.calls[2].outcome = "KubectlNotFoundError"
    /\ exitCode = 127

(***************************************************************************)
(* Properties of the lines parse accepts and rejects                       *)
(***************************************************************************)
\* the step of parse that handles the next line of the text
ParsesLine == parsePc = "loop" /\ lineIdx < Len(lines) /\ lineIdx' = lineIdx + 1

\* the line that step handles, trimmed
NextLine == Trim(lines[lineIdx + 1])

\* a line that is neither blank nor a comment
HasContent(line) == line # <<>> /\ line[1] # "#"

\* the line splits on `,` into exactly 3 fields, none of them empty
ThreeFields(line) ==
    LET parts == ServiceParts(line)
    IN  Len(parts) = 3 /\ \A k \in 1..3 : parts[k] # <<>>

\* the step throws the ConfigParseError of this kind at the line it handles
ThrowsAtLine(kinds) ==
    /\ parser'.error # <<>>
    /\ parser'.error[1].kind \in kinds
    /\ parser'.error[1].line = lineIdx + 1
    /\ parser'.error[1].file = filename

UniqueNames(seq) == \A i, j \in 1..Len(seq) : i # j => seq[i].name # seq[j].name

\* C24: in every Config parse returns, no group holds two services of one
\* name and the group map holds no name twice; a service line whose name
\* the open group already holds is a parse error.
C24_NamesAreUnique ==
    /\ [](/\ UniqueNames(parser.groups)
          /\ \A k \in 1..Len(parser.groups) : UniqueNames(parser.groups[k].services)
          /\ parser.currentGroup # <<>> => UniqueNames(parser.currentGroup[1].services))
    /\ [][(/\ ParsesLine
           /\ parser.inGroup /\ parser.currentGroup # <<>>
           /\ HasContent(NextLine) /\ ~GroupMatches(NextLine) /\ ~ContextMatches(NextLine)
           /\ ThreeFields(NextLine)
           /\ \E k \in 1..Len(parser.currentGroup[1].services) :
                 parser.currentGroup[1].services[k].name = ServiceParts(NextLine)[1])
          => parser'.error # <<>>]_vars

C24_Witness ==
    /\ ParseThrew
    /\ parser.error[1].kind = "Duplicate service name"
    /\ parser.error[1].line = 3
    /\ Len(parser.currentGroup[1].services) = 1

IsServiceLine(line) ==
    /\ HasContent(line)
    /\ ~GroupMatches(line)
    /\ line # <<"}">>
    /\ ~ContextMatches(line)

\* the text of a base-10 integer in 1..65535
IsPortText(text) ==
    /\ text # <<>>
    /\ \A i \in 1..Len(text) : IsDigit(text[i])
    /\ ParseDigits(text) \in 1..65535

\* C26: a service line is accepted only if each of its two port fields is
\* the text of a base-10 integer in 1..65535; a port field of digits
\* followed by other characters is a ConfigParseError.
C26_PortFieldsAreIntegerTexts ==
    (parsePc = "done" /\ parser.error = <<>>) =>
        \A k \in 1..Len(lines) :
            IsServiceLine(Trim(lines[k])) =>
                /\ ThreeFields(Trim(lines[k]))
                /\ IsPortText(ServiceParts(Trim(lines[k]))[2])
                /\ IsPortText(ServiceParts(Trim(lines[k]))[3])

C28_NestedGroupFails ==
    /\ [](Len(parser.currentGroup) <= 1)
    /\ [][(/\ ParsesLine
           /\ parser.inGroup
           /\ GroupMatches(NextLine))
          => /\ ThrowsAtLine({"Nested groups are not supported"})
             /\ parser'.currentGroup = parser.currentGroup]_vars

C28_Witness ==
    /\ ParseThrew
    /\ parser.error[1].kind = "Nested groups are not supported"
    /\ parser.error[1].line = 3
    /\ Len(parser.currentGroup[1].services) = 1

\* C29: while no group is open, a line with content that is no group-open
\* line, a stray `}` included, makes parse fail with a ConfigParseError at
\* that line.
C29_ContentOutsideGroupFails ==
    [][(/\ ParsesLine
        /\ ~parser.inGroup
        /\ HasContent(NextLine)
        /\ ~GroupMatches(NextLine))
       => ThrowsAtLine(IF NextLine = <<"}">> THEN {"Unexpected group end"}
                       ELSE {"Unexpected content outside group"})]_vars

C29_Witness ==
    /\ ParseThrew
    /\ parser.error[1].kind = "Unexpected content outside group"
    /\ parser.error[1].line = 4
    /\ Len(parser.groups) = 1

\* C30: parse never returns a Config without groups: a text of blank and
\* comment lines only, the empty text included, fails with the
\* no-groups-found ConfigParseError.
C30_NoGroupsFails ==
    /\ (parsePc = "done" /\ parser.error = <<>>) => Len(parser.groups) >= 1
    /\ (parsePc = "done" /\ \A k \in 1..Len(lines) : ~HasContent(Trim(lines[k])))
          => parser.error = <<ConfigParseError("No groups found in configuration", filename, NoLine)>>

C30_Witness ==
    /\ ParseThrew
    /\ parser.error[1].kind = "No groups found in configuration"
    /\ Len(lines) = 2
    /\ Trim(lines[1]) # <<>>
    /\ \A k \in 1..Len(lines) : ~HasContent(Trim(lines[k]))

(***************************************************************************)
(* Properties of upCommand as a whole                                      *)
(***************************************************************************)
\* the configuration of the run cannot be read or parsed, it holds no group
\* of the name asked for, or that group holds no service of the prefix
\* asked for
UpLookupFails ==
    LET parsed == parse(up.text, NoFile)
        found == findGroup(parsed.groups, up.groupName)
    IN  \/ ~up.readable
        \/ parsed.error # <<>>
        \/ found = <<>>
        \/ /\ up.servicePrefix # <<>>
           /\ \A k \in 1..Len(found[1].services) :
                 ~StartsWith(found[1].services[k].name, up.servicePrefix)

\* C21: in up, a failure of config parsing, of the group lookup or of the
\* service lookup ends the command before start is called for any service.
C21_LookupFailureStartsNothing ==
    (up.pc # "idle" /\ UpLookupFails) =>
        /\ up.calls = <<>>
        /\ up.pc = "exited"
        /\ up.error \in {"ConfigParseError", "GroupNotFoundError", "ServiceNotFoundError"}
        /\ exitCode = 1

C21_Witness ==
    /\ up.pc = "exited"
    /\ up.error = "ServiceNotFoundError"
    /\ Len(findGroup(parse(up.text, NoFile).groups, up.groupName)[1].services) = 3
    /\ up.calls = <<>>

\* C22: an up run without a KubectlNotFoundError ends with status 0 if at
\* least one call of start succeeded, and with a status other than 0 if
\* none did.
C22_SuccessIfAnyStarted ==
    (UpEnded /\ \A k \in 1..Len(up.calls) : up.calls[k].outcome # "KubectlNotFoundError") =>
        IF \E k \in 1..Len(up.calls) : up.calls[k].outcome = "success"
        THEN up.pc = "returned" /\ exitCode = 0
        ELSE up.pc = "exited" /\ exitCode \notin {0, NoExit}

C22_Witness ==
    /\ up.pc = "returned"
    /\ exitCode = 0
    /\ Len(up.calls) = 3
    /\ up.calls[1].outcome = "PortForwardError"
    /\ up.calls[2].outcome = "PortForwardError"
    /\ up.calls[3].outcome = "success"

(***************************************************************************)
(* Properties of concurrent calls of start                                 *)
(***************************************************************************)
\* C23: there is no mutual exclusion between invocations: start never
\* consults the process table before it spawns, so every call that passed
\* validation and the availability check spawns its own child whatever runs
\* already; two concurrent calls for one service and one local port can both
\* report success, and the process table then holds several processes of
\* one (serviceName, localPort, remotePort) key.
C23_NoMutualExclusion ==
    /\ \A c \in DOMAIN start :
          (start[c].checked = "ok" /\ start[c].pc \in {"waiting", "done"})
              => (start[c].launcher # "none" \/ start[c].reason = <<"vbs">>)
    /\ \A j, k \in 1..Len(table) : j # k => table[j].pid # table[k].pid

C23_Witness ==
    /\ \A c \in DOMAIN start :
          /\ start[c].outcome = "success"
          /\ start[c].serviceName = start[1].serviceName
          /\ start[c].localPort = start[1].localPort
          /\ HasRow(table, c, "primary")
    /\ \E j, k \in 1..Len(listAll(platform, table)) :
          /\ j # k
          /\ TunnelKey(listAll(platform, table)[j]) = TunnelKey(listAll(platform, table)[k])
          /\ listAll(platform, table)[j].pid # listAll(platform, table)[k].pid

(***************************************************************************)
(* Properties of the Config parse returns, read off the text               *)
(***************************************************************************)
ParseReturned == parsePc = "done" /\ parser.error = <<>>

\* the group declarations of the text that are closed: <<i, j>> with a
\* group-open line at i and the first `}` line after it at j
ClosedBlocks(ls) ==
    { <<i, j>> \in (1..Len(ls)) \X (1..Len(ls)) :
        /\ i < j
        /\ GroupMatches(Trim(ls[i]))
        /\ Trim(ls[j]) = <<"}">>
        /\ \A k \in (i + 1)..(j - 1) : Trim(ls[k]) # <<"}">> }

\* the last closed declaration of the group name
LastBlock(ls, name) ==
    CHOOSE b \in ClosedBlocks(ls) :
        /\ GroupMatchName(Trim(ls[b[1]])) = name
        /\ \A o \in ClosedBlocks(ls) : GroupMatchName(Trim(ls[o[1]])) = name => o[1] <= b[1]

ServiceOfLine(line) ==
    [name |-> ServiceParts(line)[1],
     localPort |-> parseInt(ServiceParts(line)[2]).value,
     remotePort |-> parseInt(ServiceParts(line)[3]).value]

\* the services of the service lines a..b of the text, in text order
RECURSIVE ServicesOfLines(_, _, _)
ServicesOfLines(ls, a, b) ==
    IF a > b THEN <<>>
    ELSE (IF IsServiceLine(Trim(ls[a])) THEN <<ServiceOfLine(Trim(ls[a]))>> ELSE <<>>)
         \o ServicesOfLines(ls, a + 1, b)

\* the value of the last context line among the lines a..b, <<>> if none
RECURSIVE ContextOfLines(_, _, _)
ContextOfLines(ls, a, b) ==
    IF a > b THEN <<>>
    ELSE IF HasContent(Trim(ls[b])) /\ ~GroupMatches(Trim(ls[b])) /\ ContextMatches(Trim(ls[b]))
    THEN ContextMatchValue(Trim(ls[b]))
    ELSE ContextOfLines(ls, a, b - 1)

\* the group name is declared and closed more than once in the text
DeclaredTwice(ls, name) ==
    Cardinality({b \in ClosedBlocks(ls) : GroupMatchName(Trim(ls[b[1]])) = name}) >= 2

\* C31: when a text declares and closes two valid groups of one name, parse
\* succeeds and its map holds under that name exactly the later group, with
\* the services and the context of the later declaration and nothing of the
\* earlier one.
C31_LaterGroupReplacesEarlier ==
    ParseReturned =>
        \A b \in ClosedBlocks(lines) :
            LET name == GroupMatchName(Trim(lines[b[1]]))
                last == LastBlock(lines, name)
                held == {k \in 1..Len(parser.groups) : parser.groups[k].name = name}
            IN  DeclaredTwice(lines, name) =>
                    /\ Cardinality(held) = 1
                    /\ \A k \in held :
                          /\ parser.groups[k].services =
                                ServicesOfLines(lines, last[1] + 1, last[2] - 1)
                          /\ parser.groups[k].context =
                                ContextOfLines(lines, last[1] + 1, last[2] - 1)

C31_Witness ==
    /\ ParseReturned
    /\ DeclaredTwice(lines, W_g)
    /\ Len(parser.groups) = 1
    /\ parser.groups[1].context = <<>>
    /\ Len(parser.groups[1].services) = 1
    /\ parser.groups[1].services[1].name = <<"w", "e", "b">>
    /\ ContextMatches(Trim(lines[2]))

\* C38: in every group of a Config parse returns, the services are in the
\* order of their service lines in the text; blank lines, comment lines,
\* context lines and a trailing `;` leave the sequence as it is.
C38_ServicesKeepTextOrder ==
    ParseReturned =>
        \A k \in 1..Len(parser.groups) :
            LET last == LastBlock(lines, parser.groups[k].name)
            IN  parser.groups[k].services = ServicesOfLines(lines, last[1] + 1, last[2] - 1)

C38_Witness ==
    /\ ParseReturned
    /\ Len(lines) = 7
    /\ Trim(lines[2])[1] = "#"
    /\ Trim(lines[4]) = <<>>
    /\ ContextMatches(Trim(lines[5]))
    /\ Len(parser.groups) = 1
    /\ Len(parser.groups[1].services) = 2
    /\ parser.groups[1].services[1].name = W_svc_a
    /\ parser.groups[1].services[2].name = <<"w", "e", "b">>

(***************************************************************************)
(* Properties of findGroup and findServicesWithPrefix                      *)
(***************************************************************************)
\* the positions of the map that hold the name
HeldUnder(config, name) == {k \in 1..Len(config) : config[k].name = name}

IsPrefixOf(p, name) ==
    /\ Len(p) <= Len(name)
    /\ \A i \in 1..Len(p) : name[i] = p[i]

\* the services of the sequence whose name starts with p, in their order
RECURSIVE Starting(_, _)
Starting(services, p) ==
    IF services = <<>> THEN <<>>
    ELSE (IF IsPrefixOf(p, services[1].name) THEN <<services[1]>> ELSE <<>>)
         \o Starting(Tail(services), p)

C34_PrefixMonotonicity ==
    (lookup.pc = "done" /\ lookup.group # <<>> /\ IsPrefixOf(lookup.prefix, lookup.longer)) =>
        /\ \A k \in 1..Len(lookup.longerServices) :
              \E j \in 1..Len(lookup.services) : lookup.services[j] = lookup.longerServices[k]
        /\ lookup.longerError = "none" => lookup.error = "none"

C34_Witness ==
    /\ lookup.pc = "done"
    /\ lookup.prefix = <<"s", "v", "c">>
    /\ lookup.longer = W_svc_a
    /\ lookup.longerServices = <<Service(W_svc_a, 8080, 80)>>
    /\ Len(lookup.services) = 2

(***************************************************************************)
(* Properties of the listeners and the timer of start                      *)
(***************************************************************************)
\* C36: the grace-period decision has no lost-exit race: when the spawned
\* child has exited with a non-zero status before the timer fires, the
\* timer's step does not report success.
C36_NoLostExit ==
    [][\A c \in DOMAIN start :
          (/\ start[c].pc = "waiting"
           /\ start'[c].pc = "done"
           /\ start[c].launcher = "gone"
           /\ start[c].pendingExit \notin {NoEvent, 0})
          => start'[c].outcome # "success"]_vars

\* C39: the `Started port-forward for <service>` message is logged only in
\* calls that report success, never in a call that has reported failure.
C39_StartedOnlyOnSuccess ==
    \A c \in DOMAIN start : start[c].startedMsg => start[c].outcome = "success"

\* C40: every start call terminates: once validateStartParams and the
\* availability check have returned, the call settles with success or
\* failure, at the latest when the timer fires, whether the spawned
\* process keeps running, ends with any status or cannot be spawned; a
\* call that has ended has settled, and the tunnel may still run then.
C40_StartTerminates ==
    /\ [](\A c \in DOMAIN start : start[c].pc = "done" => start[c].outcome # "none")
    /\ [][\A c \in DOMAIN start :
             (start[c].pc = "waiting" /\ start'[c] # start[c] /\ GraceTimer(c))
             => start'[c].pc = "done" /\ start'[c].outcome # "none"]_vars
    /\ \A c \in {1} : (start[c].pc = "spawn") ~> (start[c].outcome # "none")

C40_Witness ==
    /\ start[1].pc = "done"
    /\ start[1].outcome = "success"
    /\ start[1].checked = "ok"
    /\ HasRow(table, 1, "primary")

(***************************************************************************)
(* Properties of stop and stopAll over running processes                   *)
(***************************************************************************)
PidsIn(seq) == {seq[k].pid : k \in 1..Len(seq)}

\* the entries a call of stop or stopAll is about, among the given ones
Concerned(entries) ==
    IF stopMode = "stopAll" THEN entries ELSE FilterPrefix(entries, servicePrefix)

\* the pids of the first n entries of the sequence, without the undefined ones
RECURSIVE PidsOfFirst(_, _)
PidsOfFirst(entries, n) ==
    IF n = 0 \/ entries = <<>> THEN <<>>
    ELSE (IF HasPid(Head(entries)) THEN <<Head(entries).pid>> ELSE <<>>)
         \o PidsOfFirst(Tail(entries), n - 1)

\* C35: within one call of stop or stopAll the scan is over before the
\* first terminate call and is not repeated; the terminate calls are issued
\* one at a time in the order of the scan, each for a scanned pid; a process
\* that appears after the scan is not terminated by the call.
C35_ScanPrecedesKills ==
    /\ [](stopPc = "idle" => kills = <<>>)
    /\ [](stopPc # "idle" =>
            /\ matching = Concerned(running)
            /\ KilledPids = PidsOfFirst(matching, stopIdx - 1))
    /\ [][stopPc # "idle" => running' = running /\ matching' = matching]_vars
    /\ [][kills' # kills =>
            /\ stopPc = "kill"
            /\ Len(kills') = Len(kills) + 1
            /\ \A k \in 1..Len(table) :
                  table[k].pid \notin PidsIn(running)
                  => \E j \in 1..Len(table') : table'[j] = table[k]]_vars

C35_Witness ==
    /\ stopPc = "done"
    /\ Len(kills) = 1
    /\ \E k \in 1..Len(table) :
          /\ table[k].role = "fallback"
          /\ table[k].pid \notin PidsIn(running)
          /\ table[k].pid > kills[1][1]

\* every terminate call of the stop so far hit a process that was running
EveryKillHit == \A k \in 1..Len(kills) : kills[k][2]

=============================================================================
